---------------------------- MODULE Spec2Model ----------------------------
(***************************************************************************)
(* Model of the settlement payment-file code of finance-portal-lib:         *)
(* minPaymentsAlgorithm (validation and netting loop) and format (the       *)
(* pain.001 emitter), src/unnamed/part_003; and of the FXP part of the      *)
(* admin API, src/src/admin/api.js: buildDecimalRate, getForexProviderInfo  *)
(* and the currency-channel operations.                                     *)
(*                                                                         *)
(* Decimals (big.js values) are integers counting units of 10^-FracDigits:  *)
(* plus, cmp, eq, lt, lte, gt and times(-1) of big.js are exact, so they    *)
(* are the integer operations; round(dp) is modelled by HalfUpRound.  A     *)
(* matrix cell holds the decimal that Big#toString renders (the rendering   *)
(* is exact and canonical for every value that occurs here).                *)
(***************************************************************************)
EXTENDS Integers, Sequences, FiniteSets, TLC

\* ------------------------------------------------------------------ bounds

\* Largest number of participants of a well-formed settlement input.
MaxParticipants == 4

\* Largest number of participants of an input that may break validation rules.
MaxDefective == 2

\* Fractional digits carried by the model's decimals.
FracDigits == 1

\* Largest number of participants of a settlement whose matrix is formatted.
MaxFormatParticipants == 3

\* Largest number of calls of format on one template object.
MaxFormatCalls == 2

\* Longest rate string handed to buildDecimalRate.
MaxRateLen == 3

\* How far decimalPlaces may exceed the longest rate string.
MaxExtraPlaces == 2

\* Largest number of currency channels the FXP API holds at the start.
MaxChannels == 2

\* Largest number of successive currency-channel calls.
MaxFxpCalls == 2

RECURSIVE Pow10(_)
Pow10(k) == IF k = 0 THEN 1 ELSE 10 * Pow10(k - 1)

\* One whole currency unit, and half of one, as model decimals.
Unit == Pow10(FracDigits)
HalfUnit == 5 * Pow10(FracDigits - 1)

\* ---------------------------------------------------------- currency table

\* currencies.json: the ISO 4217 decimal places of each supported currency.
\* "XOF" has no minor unit; "ABCD" is not a currency (test/minPayments.js:43).
KnownCurrencies == {"XOF"}
currencies == [c \in KnownCurrencies |-> [dp |-> 0]]

AllCurrencies == {"XOF", "ABCD"}

\* ------------------------------------------------------------- sequences

Last(s) == s[Len(s)]
Front(s) == SubSeq(s, 1, Len(s) - 1)

RECURSIVE SumSeq(_)
SumSeq(s) == IF Len(s) = 0 THEN 0 ELSE Head(s) + SumSeq(Tail(s))

RECURSIVE SumSet(_, _)
SumSet(f, S) ==
    IF S = {} THEN 0
    ELSE LET x == CHOOSE y \in S : TRUE IN f[x] + SumSet(f, S \ {x})

\* -------------------------------------------------------------- decimals

Abs(x) == IF x < 0 THEN -x ELSE x

\* Big#round(dp) under big.js' default rounding mode (half away from zero).
HalfUpRound(x, dp) ==
    IF dp >= FracDigits THEN x
    ELSE LET q == Pow10(FracDigits - dp)
             m == Abs(x)
             r == ((m + (q \div 2)) \div q) * q
         IN IF x < 0 THEN -r ELSE r

\* ------------------------------------------------------------------ inputs

\* One element of input.participants: a participant with its accounts, each
\* account carrying netSettlementAmount {amount, currency}.
Position(id, k, amt, cur, nAcc) ==
    [id |-> id,
     accounts |-> [j \in 1..nAcc |->
        [id |-> 10 * k + j,
         netSettlementAmount |-> [amount |-> amt, currency |-> cur]]]]

\* The net amounts of a well-formed input: whole currency units.
WholeAmounts == {k * Unit : k \in (-3)..3}

\* Participant ids of a well-formed input: ascending or descending along the
\* participants array, so that equal amounts meet in either id order.
IdLayouts == {"ascending", "descending"}
LayoutId(layout, n, i) == IF layout = "ascending" THEN i ELSE n + 1 - i

\* An input with one account per participant, unique ids and a supported
\* currency; the amounts are arbitrary whole numbers (any sum).
WellFormedInput(n, layout, amts) ==
    [participants |->
        [i \in 1..n |-> Position(LayoutId(layout, n, i), i, amts[i], "XOF", 1)]]

DefectIds == {1, 2}
DefectAmounts == {-Unit, -HalfUnit, 0, HalfUnit, Unit}
DefectShapes == [id : DefectIds, amt : DefectAmounts, cur : AllCurrencies, nAcc : {1, 2}]

\* An input that may break any combination of the validation rules.
DefectiveInput(n, sh) ==
    [participants |->
        [i \in 1..n |-> Position(sh[i].id, i, sh[i].amt, sh[i].cur, sh[i].nAcc)]]

\* The arguments minPaymentsAlgorithm is called with.
IsInput(inp) ==
    \/ \E n \in 0..MaxParticipants : \E layout \in IdLayouts :
            \E amts \in [1..n -> WholeAmounts] : inp = WellFormedInput(n, layout, amts)
    \/ \E n \in 0..MaxDefective :
            \E sh \in [1..n -> DefectShapes] : inp = DefectiveInput(n, sh)

\* -------------------------------------------------------------------- state

VARIABLES
    input,          \* the argument of minPaymentsAlgorithm
    inputAtCall,    \* the argument as it was when the call began (history)
    pc,             \* position in minPaymentsAlgorithm
    participants,   \* let participants   (line 52)
    creditors,      \* let creditors      (line 111)
    debtors,        \* let debtors        (line 110)
    creditor,       \* let creditor       (line 114), <<>> when none is held
    matrix,         \* let matrix         (line 112)
    result,         \* what the call returned or threw
    template,       \* the template object handed to format, as it is now
    templateAtCall, \* the template object as it was when format was last called
    dfspConf,       \* the DFSP directory handed to format
    formatLog,      \* one record per call of format: its arguments and outcome
    rate,           \* buildDecimalRate's first argument
    decimalPlaces,  \* buildDecimalRate's second argument
    decimalRate,    \* what buildDecimalRate returned or threw
    library,        \* which revision of the admin API module is loaded
    channels,       \* the currency channels the FXP API holds
    fxpCall,        \* the currency-channel call in progress or last made
    fxpPc,          \* position in that call: idle, fetching, sending
    fxpFrame,       \* its locals: body, currencyChannels, targetChannel
    httpLog,        \* the requests that call has issued, in order
    fxpResult,      \* what that call resolved with or rejected with
    fxpCalls,       \* how many currency-channel calls were made
    reqPc,          \* position in a call of get, put, post or del
    reqOpts,        \* const reqOpts of that call
    response,       \* the response fetch resolved with (res)
    requestResult,  \* what the call resolved with or rejected with
    fsps,           \* the participants the central ledger holds
    fundsCall,      \* the funds call in progress or last made
    fundsPc,        \* position in that call: idle, fetching, posting, done
    fundsLog,       \* the requests that call has issued, in order
    fundsResult,    \* what that call resolved with or rejected with
    sendPc,         \* position in sendRequest: idle, awaiting, done
    fetchFunc,      \* sendRequest's third argument: which kind of function it is
    timeout,        \* sendRequest's second argument, in ticks of the clock
    elapsed,        \* the ticks since sendRequest was called
    timer,          \* the timer of setTimeout: unset, armed, fired, cleared
    aborted,        \* controller.signal.aborted
    fetchPromise,   \* the promise fetchFunc returned
    sendResult      \* what sendRequest resolved with or rejected with

vars == <<input, inputAtCall, pc, participants, creditors, debtors, creditor,
          matrix, result, template, templateAtCall, dfspConf, formatLog,
          rate, decimalPlaces, decimalRate,
          library, channels, fxpCall, fxpPc, fxpFrame, httpLog, fxpResult, fxpCalls,
          reqPc, reqOpts, response, requestResult,
          fsps, fundsCall, fundsPc, fundsLog, fundsResult,
          sendPc, fetchFunc, timeout, elapsed, timer, aborted, fetchPromise, sendResult>>

nettingVars == <<pc, participants, creditors, debtors, creditor, matrix, result>>
formatVars == <<template, templateAtCall, dfspConf, formatLog>>
settlementVars == <<input, inputAtCall, pc, participants, creditors, debtors, creditor,
                    matrix, result, template, templateAtCall, dfspConf, formatLog>>
rateVars == <<rate, decimalPlaces, decimalRate>>
fxpVars == <<library, channels, fxpCall, fxpPc, fxpFrame, httpLog, fxpResult, fxpCalls>>
requestVars == <<reqPc, reqOpts, response, requestResult>>
fundsVars == <<fsps, fundsCall, fundsPc, fundsLog, fundsResult>>
sendVars == <<sendPc, fetchFunc, timeout, elapsed, timer, aborted, fetchPromise, sendResult>>
helperVars == <<requestVars, fundsVars, sendVars>>

\* The call's outcome: pending, returned {currency, matrix}, or thrown error.
Pending == [status |-> "pending", error |-> "", ids |-> <<>>, amounts |-> <<>>,
            sum |-> 0, currency |-> "", matrix |-> <<>>]
Returned(cur, m) == [Pending EXCEPT !.status = "returned", !.currency = cur, !.matrix = m]
Thrown(e) == [Pending EXCEPT !.status = "thrown", !.error = e]

NoError == Pending

\* ------------------------------------------------- projection (lines 52-59)

\* Faulty variant: the projection rounds the amount to whole units as it reads it.
ProjectOneRounded(p) ==
    [id |-> p.id,
     acctId |-> p.accounts[1].id,
     amount |-> HalfUpRound(p.accounts[1].netSettlementAmount.amount, 0),
     cur |-> p.accounts[1].netSettlementAmount.currency]

\* .map(p => ({ id, acctId, amount: Big(...), cur }))
ProjectOne(p) ==
    [id |-> p.id,
     acctId |-> p.accounts[1].id,
     amount |-> p.accounts[1].netSettlementAmount.amount,
     cur |-> p.accounts[1].netSettlementAmount.currency]

\* .sort((a, b) => a.amount.cmp(b.amount)): a stable sort on the amount alone.
\* The place of s[i] in the sorted array: after every smaller amount and after
\* every equal amount that stood before it.
RankByAmount(s, i) ==
    Cardinality({j \in 1..Len(s) :
                    \/ s[j].amount < s[i].amount
                    \/ s[j].amount = s[i].amount /\ j < i}) + 1

SortByAmount(s) ==
    [k \in 1..Len(s) |-> s[CHOOSE i \in 1..Len(s) : RankByAmount(s, i) = k]]

Project(inp) ==
    SortByAmount([i \in 1..Len(inp.participants) |-> ProjectOne(inp.participants[i])])

\* Faulty variant: the projection sorts input.participants itself (no map() copy).
RECURSIVE InsertPosition(_, _)
InsertPosition(sorted, p) ==
    IF Len(sorted) = 0 THEN <<p>>
    ELSE IF Last(sorted).accounts[1].netSettlementAmount.amount
                <= p.accounts[1].netSettlementAmount.amount
         THEN Append(sorted, p)
    ELSE Append(InsertPosition(Front(sorted), p), Last(sorted))

RECURSIVE SortPositions(_)
SortPositions(s) ==
    IF Len(s) = 0 THEN <<>> ELSE InsertPosition(SortPositions(Front(s)), Last(s))

InputSortedInPlace(inp) == [inp EXCEPT !.participants = SortPositions(@)]

\* The input object after the projection: map() builds a new array of new
\* objects and sort() sorts that array, so the argument is left as it was.
InputAfterProject(inp) == inp

\* ------------------------------------------------- validation (lines 61-106)

NoParticipants(inp) == Len(inp.participants) = 0

DuplicateParticipant(parts) ==
    \E i, j \in 1..Len(parts) : i # j /\ parts[i].id = parts[j].id

MixedCurrencies(parts) ==
    ~ \A i \in 1..Len(parts) : parts[i].cur = parts[1].cur

UnsupportedCurrency(parts) == parts[1].cur \notin DOMAIN currencies

InvalidAmount(p, dp) == HalfUpRound(p.amount, dp) # p.amount

\* participants.filter(p => !p.amount.round(currency.dp).eq(p.amount))
RECURSIVE FilterInvalid(_, _)
FilterInvalid(s, dp) ==
    IF Len(s) = 0 THEN <<>>
    ELSE (IF InvalidAmount(Head(s), dp) THEN <<Head(s)>> ELSE <<>>)
            \o FilterInvalid(Tail(s), dp)

\* Faulty variant: only the first offender is kept (find() in place of filter()).
currErrsFirstOnly(parts) ==
    LET all == FilterInvalid(parts, currencies[parts[1].cur].dp)
    IN IF Len(all) = 0 THEN <<>> ELSE <<Head(all)>>

currErrs(parts) == FilterInvalid(parts, currencies[parts[1].cur].dp)

SumAmounts(parts) == SumSeq([i \in 1..Len(parts) |-> parts[i].amount])

MultipleAccounts(inp) ==
    \E i \in 1..Len(inp.participants) : Len(inp.participants[i].accounts) > 1

\* Faulty variant: the account check is made right after the emptiness check.
ValidateAccountsFirst(inp, parts) ==
    IF NoParticipants(inp) THEN Thrown("NoParticipants")
    ELSE IF MultipleAccounts(inp) THEN Thrown("MultipleAccounts")
    ELSE IF DuplicateParticipant(parts) THEN Thrown("DuplicateParticipant")
    ELSE IF MixedCurrencies(parts) THEN Thrown("MixedCurrencies")
    ELSE IF UnsupportedCurrency(parts) THEN Thrown("UnsupportedCurrency")
    ELSE IF Len(currErrs(parts)) > 0 THEN
        [Thrown("InvalidPrecision") EXCEPT
            !.ids = [i \in 1..Len(currErrs(parts)) |-> currErrs(parts)[i].id],
            !.amounts = [i \in 1..Len(currErrs(parts)) |-> currErrs(parts)[i].amount]]
    ELSE IF SumAmounts(parts) # 0 THEN
        [Thrown("NonZeroSum") EXCEPT !.sum = SumAmounts(parts)]
    ELSE NoError

\* The checks in the order the code makes them; NoError when all pass.
Validate(inp, parts) ==
    IF NoParticipants(inp) THEN Thrown("NoParticipants")
    ELSE IF DuplicateParticipant(parts) THEN Thrown("DuplicateParticipant")
    ELSE IF MixedCurrencies(parts) THEN Thrown("MixedCurrencies")
    ELSE IF UnsupportedCurrency(parts) THEN Thrown("UnsupportedCurrency")
    ELSE IF Len(currErrs(parts)) > 0 THEN
        [Thrown("InvalidPrecision") EXCEPT
            !.ids = [i \in 1..Len(currErrs(parts)) |-> currErrs(parts)[i].id],
            !.amounts = [i \in 1..Len(currErrs(parts)) |-> currErrs(parts)[i].amount]]
    ELSE IF SumAmounts(parts) # 0 THEN
        [Thrown("NonZeroSum") EXCEPT !.sum = SumAmounts(parts)]
    ELSE IF MultipleAccounts(inp) THEN Thrown("MultipleAccounts")
    ELSE NoError

\* --------------------------------------------------- split (lines 109-112)

\* participants.findIndex(p => p.amount.gt(0)), 1-based; 0 when none is found.
splitIndex(parts) ==
    IF \E i \in 1..Len(parts) : parts[i].amount > 0
    THEN CHOOSE i \in 1..Len(parts) :
            /\ parts[i].amount > 0
            /\ \A j \in 1..(i - 1) : parts[j].amount <= 0
    ELSE 0

\* The first element removed by participants.splice(splitIndex): findIndex's
\* -1 makes splice count from the end, so it removes the last element.
SpliceStart(parts) ==
    IF splitIndex(parts) = 0
    THEN (IF Len(parts) = 0 THEN 1 ELSE Len(parts))
    ELSE splitIndex(parts)

\* Faulty variant: the debtors are stacked with the largest at the bottom.
SplitDebtorsReversed(parts) ==
    [i \in 1..(Len(parts) - SpliceStart(parts) + 1) |-> parts[Len(parts) + 1 - i]]

SplitDebtors(parts) == SubSeq(parts, SpliceStart(parts), Len(parts))

\* Faulty variant: slice() in place of splice(), which leaves the debtors in participants.
SplitCreditorsSliced(parts) == parts

\* let creditors = participants, after splice() removed the debtors from it.
SplitCreditors(parts) == SubSeq(parts, 1, SpliceStart(parts) - 1)

\* debtors.reduce((o, d) => ({ [d.id]: {}, ...o }), {})
InitMatrix(debs) == [d \in {debs[i].id : i \in 1..Len(debs)} |-> <<>>]

\* matrix[payer][payee] = amount
SetCell(m, payer, payee, amt) ==
    [m EXCEPT ![payer] = (payee :> amt) @@ m[payer]]

\* The payees and the (payer, payee) cells of a matrix.
Payees(m) == UNION {DOMAIN m[q] : q \in DOMAIN m}
Cells(m) == {c \in (DOMAIN m) \X Payees(m) : c[2] \in DOMAIN m[c[1]]}

\* ------------------------------------------- the netting loop (lines 113-140)

\* The locals of one call while the loop runs.
Frame == [pc |-> pc, creditors |-> creditors, debtors |-> debtors,
          creditor |-> creditor, matrix |-> matrix, result |-> result]

\* After validation: throw the first failed check, or split the sorted
\* participants into debtors and creditors and create the matrix.
AfterValidate(inp, parts) ==
    IF Validate(inp, parts) # NoError
    THEN [pc |-> "done", creditors |-> <<>>, debtors |-> <<>>, creditor |-> <<>>,
          matrix |-> <<>>, result |-> Validate(inp, parts)]
    ELSE [pc |-> "outer", creditors |-> SplitCreditors(parts),
          debtors |-> SplitDebtors(parts), creditor |-> <<>>,
          matrix |-> InitMatrix(SplitDebtors(parts)), result |-> Pending]

\* Faulty variant: shift() in place of pop() takes the creditor at the head.
OuterStepShift(f) ==
    IF Len(f.creditors) > 0
    THEN [f EXCEPT !.pc = "inner", !.creditor = <<Head(f.creditors)>>,
                   !.creditors = Tail(f.creditors)]
    ELSE [f EXCEPT !.pc = "final", !.creditor = <<>>]

\* Faulty variant: the creditor is read but left in the array.
OuterStepPeek(f) ==
    IF Len(f.creditors) > 0
    THEN [f EXCEPT !.pc = "inner", !.creditor = <<Last(f.creditors)>>]
    ELSE [f EXCEPT !.pc = "final", !.creditor = <<>>]

\* while (creditors.length > 0) { let creditor = creditors.pop();
OuterStep(f) ==
    IF Len(f.creditors) > 0
    THEN [f EXCEPT !.pc = "inner", !.creditor = <<Last(f.creditors)>>,
                   !.creditors = Front(f.creditors)]
    ELSE [f EXCEPT !.pc = "final", !.creditor = <<>>]

\* Faulty variant: lt(0) in place of lte(0).
InnerConditionStrict(f) ==
    /\ Len(f.debtors) > 0
    /\ f.creditor[1].amount + Last(f.debtors).amount < 0

\* debtors.length > 0 && creditor.amount.plus(tail.amount).lte(0)
InnerCondition(f) ==
    /\ Len(f.debtors) > 0
    /\ f.creditor[1].amount + Last(f.debtors).amount <= 0

\* Faulty variant: the creditor's amount is not reduced by what it was paid.
InnerStepKeepsCreditor(f) ==
    IF InnerCondition(f)
    THEN LET exhaustedDebtor == Last(f.debtors) IN
         [f EXCEPT !.debtors = Front(f.debtors),
                   !.matrix = SetCell(f.matrix, exhaustedDebtor.id, f.creditor[1].id,
                                      exhaustedDebtor.amount)]
    ELSE [f EXCEPT !.pc = "partial"]

\* One iteration of the inner loop: pop the debtor, write its whole amount.
InnerStep(f) ==
    IF InnerCondition(f)
    THEN LET exhaustedDebtor == Last(f.debtors) IN
         [f EXCEPT !.debtors = Front(f.debtors),
                   !.matrix = SetCell(f.matrix, exhaustedDebtor.id, f.creditor[1].id,
                                      exhaustedDebtor.amount),
                   !.creditor = <<[f.creditor[1] EXCEPT
                                    !.amount = @ + exhaustedDebtor.amount]>>]
    ELSE [f EXCEPT !.pc = "partial"]

\* Faulty variant: the partial draw writes the creditor's amount without negating it.
PartialAmountSigned(c) == c.amount

\* creditor.amount.times(-1): the amount written by the partial draw.
PartialAmount(c) == -c.amount

\* if (creditor.amount.lt(0)) { draw the rest from debtors[debtors.length - 1] }
\* Reading .id of a missing debtor is a TypeError.
PartialStep(f) ==
    IF f.creditor[1].amount < 0
    THEN IF Len(f.debtors) = 0
         THEN [f EXCEPT !.pc = "done", !.result = Thrown("TypeError")]
         ELSE LET partiallyExhaustedDebtor == Last(f.debtors) IN
              [f EXCEPT !.pc = "outer",
                        !.matrix = SetCell(f.matrix, partiallyExhaustedDebtor.id,
                                           f.creditor[1].id, PartialAmount(f.creditor[1])),
                        !.debtors = Append(Front(f.debtors),
                            [partiallyExhaustedDebtor EXCEPT
                                !.amount = @ + f.creditor[1].amount])]
    ELSE [f EXCEPT !.pc = "outer"]

\* if (debtors.length > 0) throw ...; return { currency, matrix }
FinalStep(f, inp) ==
    IF Len(f.debtors) > 0
    THEN [f EXCEPT !.pc = "done", !.result = Thrown("FailedToBalance")]
    ELSE [f EXCEPT !.pc = "done",
            !.result = Returned(
                inp.participants[1].accounts[1].netSettlementAmount.currency, f.matrix)]

LoopStep(f, inp) ==
    CASE f.pc = "outer" -> OuterStep(f)
      [] f.pc = "inner" -> InnerStep(f)
      [] f.pc = "partial" -> PartialStep(f)
      [] f.pc = "final" -> FinalStep(f, inp)

RECURSIVE RunLoop(_, _)
RunLoop(f, inp) == IF f.pc = "done" THEN f ELSE RunLoop(LoopStep(f, inp), inp)

\* The outcome of a whole call of minPaymentsAlgorithm(inp).
minPaymentsAlgorithm(inp) == RunLoop(AfterValidate(inp, Project(inp)), inp).result

SetFrame(f) ==
    /\ pc' = f.pc
    /\ creditors' = f.creditors
    /\ debtors' = f.debtors
    /\ creditor' = f.creditor
    /\ matrix' = f.matrix
    /\ result' = f.result

\* ------------------------------------------------------ format (lines 146-221)

Pain001 == "urn:iso:std:iso:20022:tech:xsd:pain.001.001.03"

\* The parsed template_file.xml, as format reads it: the Document's xmlns
\* attribute, the GrpHdr fields it overwrites, and one PmtInf holding the
\* prototype CdtTrfTxInf entries.  After a call PmtInf is an array of groups.
PrototypeCdtTrfTxInf ==
    [RmtInf |-> [Ustrd |-> "Settlement Window"],
     PmtId |-> [EndToEndId |-> ""],
     Amt |-> [Ccy |-> "", InstdAmt |-> 0],
     Cdtr |-> [Nm |-> <<>>, Ctry |-> "", CtctDtlsNm |-> ""],
     CdtrAcct |-> <<>>]

ParsedTemplate(xmlns) ==
    [xmlns |-> xmlns,
     GrpHdr |-> [MsgId |-> "", CreDtTm |-> <<>>, NbOfTxs |-> 0, CtrlSum |-> 0],
     PmtInf |-> [isArray |-> FALSE,
                 PmtMtd |-> "TRF",
                 CdtTrfTxInf |-> <<PrototypeCdtTrfTxInf, PrototypeCdtTrfTxInf>>,
                 groups |-> <<>>]]

Templates == {ParsedTemplate(Pain001), ParsedTemplate("urn:other")}
NoTemplate == ParsedTemplate("")

\* A directory entry; the account number is a digit string with leading zeros.
DfspEntry(id) ==
    [name |-> <<"DFSP", id>>, country |-> "CI", accountId |-> <<0, 0, id, 0>>]

\* The directories tried for an input: every participant, or all but one.
Directories(inp) ==
    LET ids == {inp.participants[i].id : i \in 1..Len(inp.participants)}
    IN {[id \in ids \ skip |-> DfspEntry(id)] : skip \in {{}} \cup {{x} : x \in ids}}

\* String.prototype.replace(/^0*/, '')
RECURSIVE StripLeadingZeros(_)
StripLeadingZeros(digits) ==
    IF Len(digits) > 0 /\ Head(digits) = 0 THEN StripLeadingZeros(Tail(digits))
    ELSE digits

\* crypto.randomBytes(5) and its hex rendering.
ZeroBytes == <<0, 0, 0, 0, 0>>
SomeBytes == <<159, 58, 108, 1, 210>>
RandomFiveBytes == {ZeroBytes, SomeBytes}
Hex(bytes) == IF bytes = ZeroBytes THEN "0000000000" ELSE "9f3a6c01d2"

\* crypto.randomBytes(27).toString('base64').substring(0, 35)
RandomMsgIds == {"q83vEjRWeJq83vEjRWeJq83vEjRWeJq83vE", "ASNFZ4mrze8BI0VniavN7wEjRWeJq83vASN"}

\* new Date(): its ISO date and time of day.
Clock == {[date |-> "2020-01-31", time |-> "23:59:59.999Z"]}
ToISOString(now) == <<now.date, "T", now.time>>

WindowIds == {558}

\* The keys of a JS object with integer keys, in Object.entries order.
RECURSIVE SortedKeys(_)
SortedKeys(S) ==
    IF S = {} THEN <<>>
    ELSE LET least == CHOOSE x \in S : \A y \in S : x <= y
         IN <<least>> \o SortedKeys(S \ {least})

RECURSIVE Flatten(_)
Flatten(ss) == IF Len(ss) = 0 THEN <<>> ELSE Head(ss) \o Flatten(Tail(ss))

\* Flatten the payment matrix (lines 154-156).
paymentsArr(m) ==
    Flatten([k \in 1..Cardinality(DOMAIN m) |->
        LET payer == SortedKeys(DOMAIN m)[k]
            payees == SortedKeys(DOMAIN m[payer])
        IN [j \in 1..Len(payees) |->
                [payer |-> payer, payee |-> payees[j], amt |-> m[payer][payees[j]]]]])

\* Faulty variant: the directory check names the payer of the cell whose
\* payee is missing.
RECURSIVE FirstMissingNamesPayer(_, _)
FirstMissingNamesPayer(arr, conf) ==
    IF Len(arr) = 0 THEN 0
    ELSE IF Head(arr).payer \notin DOMAIN conf THEN Head(arr).payer
    ELSE IF Head(arr).payee \notin DOMAIN conf THEN Head(arr).payer
    ELSE FirstMissingNamesPayer(Tail(arr), conf)

\* The first id the directory check (lines 159-166) misses; 0 when none.
RECURSIVE FirstMissing(_, _)
FirstMissing(arr, conf) ==
    IF Len(arr) = 0 THEN 0
    ELSE IF Head(arr).payer \notin DOMAIN conf THEN Head(arr).payer
    ELSE IF Head(arr).payee \notin DOMAIN conf THEN Head(arr).payee
    ELSE FirstMissing(Tail(arr), conf)

\* Faulty variant: the header counts the payers instead of the transfers.
WithHeaderCountingPayers(tpl, m, msgId, now) ==
    [tpl EXCEPT !.GrpHdr =
        [MsgId |-> msgId,
         CreDtTm |-> ToISOString(now),
         NbOfTxs |-> Cardinality(DOMAIN m),
         CtrlSum |-> SumSeq([k \in 1..Len(paymentsArr(m)) |-> paymentsArr(m)[k].amt])]]

\* Modify header (lines 172-181).
WithHeader(tpl, m, msgId, now) ==
    [tpl EXCEPT !.GrpHdr =
        [MsgId |-> msgId,
         CreDtTm |-> ToISOString(now),
         NbOfTxs |-> Len(paymentsArr(m)),
         CtrlSum |-> SumSeq([k \in 1..Len(paymentsArr(m)) |-> paymentsArr(m)[k].amt])]]

\* Stamp the window id on every prototype entry (line 189).
WithUstrd(tpl, windowId) ==
    [tpl EXCEPT !.PmtInf.CdtTrfTxInf =
        [k \in 1..Len(@) |-> [@[k] EXCEPT !.RmtInf.Ustrd = <<"Settlement Window", windowId>>]]]

\* One CdtTrfTxInf of a group (lines 206-215).
CreditTransfer(creditInfTemplate, payee, amount, currency, conf, bytes) ==
    [creditInfTemplate EXCEPT
        !.PmtId = [EndToEndId |-> Hex(bytes)],
        !.Amt = [Ccy |-> currency, InstdAmt |-> amount],
        !.Cdtr = [Nm |-> conf[payee].name, Ctry |-> conf[payee].country,
                  CtctDtlsNm |-> "Casablanca JV Org"],
        !.CdtrAcct = StripLeadingZeros(conf[payee].accountId)]

\* One PmtInf group per payer (lines 191-216); e2e[payer][payee] are the
\* random bytes drawn for that credit transfer.
PaymentGroups(tpl, m, currency, conf, now, e2e) ==
    [k \in 1..Cardinality(DOMAIN m) |->
        LET payer == SortedKeys(DOMAIN m)[k]
            payees == SortedKeys(DOMAIN m[payer])
        IN [PmtMtd |-> tpl.PmtInf.PmtMtd,
            PmtInfId |-> k - 1,
            NbOfTxs |-> Cardinality(DOMAIN m[payer]),
            CtrlSum |-> SumSet(m[payer], DOMAIN m[payer]),
            ReqdExctnDt |-> now.date,
            Dbtr |-> [Nm |-> conf[payer].name, Ctry |-> conf[payer].country,
                      BICOrBEI |-> "CITICIAX"],
            DbtrAcct |-> [Id |-> StripLeadingZeros(conf[payer].accountId),
                          Ccy |-> currency],
            CdtTrfTxInf |-> [j \in 1..Len(payees) |->
                CreditTransfer(tpl.PmtInf.CdtTrfTxInf[1], payees[j], m[payer][payees[j]],
                               currency, conf, e2e[payer][payees[j]])]]]

\* template.Document.CstmrCdtTrfInitn.PmtInf = pmtInf (line 218)
WithGroups(tpl, groups) ==
    [tpl EXCEPT !.PmtInf =
        [isArray |-> TRUE, PmtMtd |-> "", CdtTrfTxInf |-> <<>>, groups |-> groups]]

FormatOutcome(status, error, missing, tpl) ==
    [status |-> status, error |-> error, missing |-> missing, template |-> tpl]

\* format({ matrix, currency }, dfspConf, template, windowId): its outcome and
\* the state it leaves the template object in.  Every write goes to the
\* object it was given, and the returned document is that object (line 220).
format(res, conf, tpl, windowId, msgId, e2e, now) ==
    IF tpl.xmlns # Pain001 THEN FormatOutcome("thrown", "BadTemplate", 0, tpl)
    ELSE IF FirstMissing(paymentsArr(res.matrix), conf) # 0 THEN
        FormatOutcome("thrown", "UnknownParticipant",
                      FirstMissing(paymentsArr(res.matrix), conf), tpl)
    ELSE LET t1 == WithHeader(tpl, res.matrix, msgId, now) IN
         \* pmtInfTemplate.CdtTrfTxInf[0] of an array is a TypeError (line 186)
         IF t1.PmtInf.isArray THEN FormatOutcome("thrown", "TypeError", 0, t1)
         ELSE LET t2 == WithUstrd(t1, windowId)
                  t3 == WithGroups(t2, PaymentGroups(t2, res.matrix, res.currency,
                                                     conf, now, e2e))
              IN FormatOutcome("returned", "", 0, t3)

\* Whether a call gets as far as drawing the MsgId (line 178) and the
\* EndToEndIds (line 209) from the random source.
DrawsMsgId(res, conf, tpl) ==
    tpl.xmlns = Pain001 /\ FirstMissing(paymentsArr(res.matrix), conf) = 0
DrawsEndToEndIds(res, conf, tpl) == DrawsMsgId(res, conf, tpl) /\ ~tpl.PmtInf.isArray

\* The random bytes a call may draw for the cells of matrix m.
EndToEndDraws(m) ==
    {f \in [DOMAIN m -> [Payees(m) -> RandomFiveBytes]] :
        \A payer \in DOMAIN m : \A payee \in Payees(m) :
            payee \notin DOMAIN m[payer] => f[payer][payee] = SomeBytes}

\* --------------------------------------------------------- buildDecimalRate

\* JavaScript values as buildDecimalRate sees them.  A string is its sequence
\* of characters.  A number is held in halves (halves = 2 * value), so that
\* the integers and the non-integer 1.5 are both values.
StringValue(chars) == [type |-> "string", chars |-> chars, halves |-> 0]
NumberValue(halves) == [type |-> "number", chars |-> <<>>, halves |-> halves]
OtherValue(type) == [type |-> type, chars |-> <<>>, halves |-> 0]
Null == OtherValue("object")
Undefined == OtherValue("undefined")

\* typeof v
TypeOf(v) == v.type

DigitChars == {"0", "1", "7"}
OtherChars == {"a"}

RECURSIVE StringsOver(_, _)
StringsOver(chars, n) ==
    IF n = 0 THEN {<<>>}
    ELSE StringsOver(chars, n - 1)
            \cup {Append(w, c) : w \in StringsOver(chars, n - 1), c \in chars}

\* The values tried as rate and as decimalPlaces.
RateValues ==
    {StringValue(w) : w \in StringsOver(DigitChars \cup OtherChars, MaxRateLen)}
        \cup {Null, NumberValue(2 * 12345), OtherValue("function")}
PlacesValues ==
    {NumberValue(2 * d) : d \in (-1)..(MaxRateLen + MaxExtraPlaces)}
        \cup {NumberValue(3), Null, StringValue(<<"f", "o", "o">>), OtherValue("function")}

\* String.prototype.slice(from, to) for from, to >= 0; a fractional index is
\* truncated (ToIntegerOrInfinity) and an index beyond the end is the end.
Min(a, b) == IF a < b THEN a ELSE b
Slice(chars, fromHalves, toHalves) ==
    SubSeq(chars, Min(fromHalves \div 2, Len(chars)) + 1, Min(toHalves \div 2, Len(chars)))

NotCalled == [status |-> "pending", value |-> <<>>, error |-> ""]
ReturnedString(chars) == [status |-> "returned", value |-> chars, error |-> ""]
AssertionError(message) == [status |-> "thrown", value |-> <<>>, error |-> message]

\* const position (lines 354-356), in halves
position(rateChars, places) ==
    IF 2 * Len(rateChars) - places.halves < 0 THEN 0
    ELSE 2 * Len(rateChars) - places.halves

\* Faulty variant: the integer part is the slice even when it is empty.
IntegerPartNoDefault(rateChars, positionHalves) == Slice(rateChars, 0, positionHalves)

\* rate.slice(0, position) || 0 (line 358), as the template literal renders it
IntegerPart(rateChars, positionHalves) ==
    IF Slice(rateChars, 0, positionHalves) = <<>> THEN <<"0">>
    ELSE Slice(rateChars, 0, positionHalves)

\* rate.slice(position) (line 359)
DecimalPart(rateChars, positionHalves) ==
    Slice(rateChars, positionHalves, 2 * Len(rateChars))

\* buildDecimalRate(rate, decimalPlaces), lines 346-362
buildDecimalRate(r, places) ==
    IF TypeOf(r) # "string" THEN AssertionError("rate must be a string")
    ELSE IF TypeOf(places) # "number"
        THEN AssertionError("decimalPlaces must be a number")
    ELSE IF places.halves = 0 THEN ReturnedString(r.chars)
    ELSE ReturnedString(IntegerPart(r.chars, position(r.chars, places)) \o <<".">>
                            \o DecimalPart(r.chars, position(r.chars, places)))

\* ------------------------------------------------------ the FXP operations

\* String.prototype.toLowerCase / toUpperCase on the letters that occur.
LowerLetters == <<"a", "d", "e", "m", "r", "s", "u">>
UpperLetters == <<"A", "D", "E", "M", "R", "S", "U">>
LowerChar(c) ==
    IF \E i \in 1..Len(UpperLetters) : UpperLetters[i] = c
    THEN LowerLetters[CHOOSE i \in 1..Len(UpperLetters) : UpperLetters[i] = c]
    ELSE c
UpperChar(c) ==
    IF \E i \in 1..Len(LowerLetters) : LowerLetters[i] = c
    THEN UpperLetters[CHOOSE i \in 1..Len(LowerLetters) : LowerLetters[i] = c]
    ELSE c
toLowerCase(str) == [i \in 1..Len(str) |-> LowerChar(str[i])]
toUpperCase(str) == [i \in 1..Len(str) |-> UpperChar(str[i])]

\* String.prototype.substring(from, to) for 0 <= from <= to
substring(str, from, to) == SubSeq(str, Min(from, Len(str)) + 1, Min(to, Len(str)))

\* lines 325-327 and 336-338
extractSourceCurrency(currencyPair) == substring(currencyPair, 0, 3)
extractDestinationCurrency(currencyPair) == substring(currencyPair, 3, 6)

EUR == <<"E", "U", "R">>
MAD == <<"M", "A", "D">>
USD == <<"U", "S", "D">>

\* The currency pairs the operations are called with.
CurrencyPairs == {toLowerCase(EUR \o MAD), EUR \o MAD, toLowerCase(EUR \o USD), MAD \o EUR}

\* A currency channel as the FXP API lists it.
Channel(id, source, destination) ==
    [id |-> id, sourceCurrency |-> source, destinationCurrency |-> destination]

\* The source and destination currencies of the channels the API may hold.
ChannelKinds ==
    {<<EUR, MAD>>, <<toLowerCase(EUR), toLowerCase(MAD)>>, <<EUR, USD>>, <<MAD, EUR>>}

\* The lists the API may hold at the start; a channel's id is its index from 0.
IsChannelList(list) ==
    \E n \in 0..MaxChannels : \E kinds \in [1..n -> ChannelKinds] :
        list = [i \in 1..n |-> Channel(i - 1, kinds[i][1], kinds[i][2])]

\* The two revisions of the module: src/admin/api.js reads rateSetId from
\* rateDetails, the other reads it from RATE_ID_PER_CURRENCY_PAIR.
Libraries == {"rateDetails", "table"}

\* const RATE_ID_PER_CURRENCY_PAIR = { EURMAD: '43' }; undefined for other keys
RATE_ID_PER_CURRENCY_PAIR(key) ==
    IF key = EUR \o MAD THEN StringValue(<<"4", "3">>) ELSE Undefined

\* The rate records createFxpRateForCurrencyChannel is called with: rate is
\* a number (its toString() the digits), rateSetId and forexProviderInfo may
\* be absent.
RateDetails(digits, places, rateSetId, info) ==
    [rate |-> digits, decimalRate |-> places,
     startTime |-> <<"2019-09-03", "T", "12:00:00.000", "Z">>,
     endTime |-> <<"2019-09-04", "T", "12:00:00.000", "Z">>,
     reuse |-> TRUE, rateSetId |-> rateSetId, forexProviderInfo |-> info]
GivenProviderInfo == [given |-> TRUE]
AllRateDetails ==
    {RateDetails(<<"7", "1">>, NumberValue(2 * d), id, info) :
        d \in {1, 4},
        id \in {Undefined, StringValue(<<"7">>)},
        info \in {Undefined, GivenProviderInfo}}

\* endTime.replace('T', ' ').replace('Z', '')
ValidUntilTime(endTime) ==
    LET spaced == [i \in 1..Len(endTime) |-> IF endTime[i] = "T" THEN " " ELSE endTime[i]]
    IN SelectSeq(spaced, LAMBDA part : part # "Z")

\* getForexProviderInfo(FOREX_PROVIDERS.CITI, currencyPair, rateDetails):
\* lines 372-434 of src/admin/api.js, and lines 370-436 of the other revision.
getForexProviderInfo(lib, currencyPair, rateDetails) ==
    [citi |->
        [rateSetId |-> IF lib = "rateDetails" THEN rateDetails.rateSetId
                       ELSE RATE_ID_PER_CURRENCY_PAIR(toUpperCase(currencyPair)),
         currencyPair |-> toUpperCase(currencyPair),
         baseCurrency |-> toUpperCase(extractSourceCurrency(currencyPair)),
         ratePrecision |-> rateDetails.decimalRate.halves \div 2,
         tenor |-> "TN",
         bidSpotRate |-> buildDecimalRate(StringValue(rateDetails.rate),
                                          rateDetails.decimalRate).value,
         validUntilTime |-> ValidUntilTime(rateDetails.endTime),
         isValid |-> "true",
         isTradable |-> "true"]]

\* A request handed to fetch, and the URLs used.
Request(method, url, body) == [method |-> method, url |-> url, body |-> body]
ChannelsUrl == <<"exchange-rates/channels">>
ChannelUrl(id) == <<"exchange-rates/channels", id>>
RatesUrl(id) == <<"exchange-rates/channels", id, "rates">>
NoBody == <<>>

\* How a request ends (throwOrJson): a JSON body of an ok response, null
\* for an empty response, or an HTTPResponseError.
Replies == {"json", "empty", "error"}

NoCall == [op |-> "none", currencyPair |-> <<>>, details |-> <<>>]
FxpCall(op, currencyPair, details) ==
    [op |-> op, currencyPair |-> currencyPair, details |-> details]
NoFrame == [body |-> NoBody, fetched |-> "no", currencyChannels |-> <<>>, targetChannel |-> 0]
FxpPending == [status |-> "pending", value |-> <<>>, error |-> ""]
Resolved(value) == [status |-> "resolved", value |-> value, error |-> ""]
Rejected(error) == [status |-> "rejected", value |-> <<>>, error |-> error]
OkTrue == [ok |-> TRUE]

\* Faulty variant: the currencies are compared as written.
RECURSIVE findCaseSensitive(_, _, _)
findCaseSensitive(currencyChannels, sourceCurrency, destinationCurrency) ==
    IF Len(currencyChannels) = 0 THEN 0
    ELSE IF /\ Head(currencyChannels).sourceCurrency = sourceCurrency
            /\ Head(currencyChannels).destinationCurrency = destinationCurrency
        THEN 1
    ELSE IF findCaseSensitive(Tail(currencyChannels), sourceCurrency, destinationCurrency) = 0
        THEN 0
    ELSE 1 + findCaseSensitive(Tail(currencyChannels), sourceCurrency, destinationCurrency)

\* currencyChannels.find(...) of lines 461-464, 489-492 and 523-526: the
\* index of the first channel of the pair, 0 when there is none.
RECURSIVE find(_, _, _)
find(currencyChannels, sourceCurrency, destinationCurrency) ==
    IF Len(currencyChannels) = 0 THEN 0
    ELSE IF /\ toLowerCase(Head(currencyChannels).sourceCurrency)
                    = toLowerCase(sourceCurrency)
            /\ toLowerCase(Head(currencyChannels).destinationCurrency)
                    = toLowerCase(destinationCurrency)
        THEN 1
    ELSE IF find(Tail(currencyChannels), sourceCurrency, destinationCurrency) = 0 THEN 0
    ELSE 1 + find(Tail(currencyChannels), sourceCurrency, destinationCurrency)

\* const targetChannel of the three operations
targetChannel(currencyChannels, currencyPair) ==
    find(currencyChannels, extractSourceCurrency(currencyPair),
         extractDestinationCurrency(currencyPair))

\* A request with what it ended in, once it has ended.
Sent(method, url, body) ==
    [method |-> method, url |-> url, body |-> body, outcome |-> FxpPending]

\* Where a call stands after one of its segments has run.
FxpStep(nextPc, frame, log, outcome) ==
    [pc |-> nextPc, frame |-> frame, log |-> log, result |-> outcome]

\* createFxpCurrencyChannel after the list arrived (lines 523-532)
AfterFetchCreateChannel(call, frame, log) ==
    IF targetChannel(frame.currencyChannels, call.currencyPair) # 0
    THEN FxpStep("idle", [frame EXCEPT !.targetChannel =
                                targetChannel(frame.currencyChannels, call.currencyPair)],
                 log, Rejected("FXP API error - Currency channel already exists."))
    ELSE FxpStep("sending", frame,
                 Append(log, Sent("POST", ChannelsUrl, frame.body)), FxpPending)

\* Faulty variant: a missing channel is an error, as it is for a new rate.
AfterFetchDeleteStrict(call, frame, log) ==
    LET t == targetChannel(frame.currencyChannels, call.currencyPair) IN
    IF t = 0
    THEN FxpStep("idle", frame, log, Rejected("FXP API error - Currency channel not found."))
    ELSE FxpStep("sending", [frame EXCEPT !.targetChannel = t],
                 Append(log, Sent("DELETE", ChannelUrl(frame.currencyChannels[t].id), NoBody)),
                 FxpPending)

\* deleteFxpCurrencyChannel after the list arrived (lines 489-498)
AfterFetchDelete(call, frame, log) ==
    LET t == targetChannel(frame.currencyChannels, call.currencyPair) IN
    IF t = 0
    THEN FxpStep("idle", frame, log, Resolved(OkTrue))
    ELSE FxpStep("sending", [frame EXCEPT !.targetChannel = t],
                 Append(log, Sent("DELETE", ChannelUrl(frame.currencyChannels[t].id), NoBody)),
                 FxpPending)

\* createFxpRateForCurrencyChannel after the list arrived (lines 461-470)
AfterFetchCreateRate(call, frame, log) ==
    LET t == targetChannel(frame.currencyChannels, call.currencyPair) IN
    IF t = 0
    THEN FxpStep("idle", frame, log, Rejected("FXP API error - Currency channel not found."))
    ELSE FxpStep("sending", [frame EXCEPT !.targetChannel = t],
                 Append(log, Sent("POST", RatesUrl(frame.currencyChannels[t].id), frame.body)),
                 FxpPending)

\* const currencyChannels = await getFxpCurrencyChannels(endpoint), and the
\* statements up to the next await or the end of the call.
AfterFetch(call, frame, log, reply, list) ==
    LET got == [log EXCEPT ![1].outcome =
                    IF reply = "json" THEN Resolved(list)
                    ELSE IF reply = "empty" THEN Resolved(Null)
                    ELSE Rejected("HTTPResponseError")]
        listed == [frame EXCEPT !.fetched = "list", !.currencyChannels = list]
    IN IF reply = "error" THEN FxpStep("idle", frame, got, Rejected("HTTPResponseError"))
       \* null.find(...) is a TypeError
       ELSE IF reply = "empty"
           THEN FxpStep("idle", [frame EXCEPT !.fetched = "null"], got, Rejected("TypeError"))
       ELSE IF call.op = "createFxpCurrencyChannel"
           THEN AfterFetchCreateChannel(call, listed, got)
       ELSE IF call.op = "deleteFxpCurrencyChannel" THEN AfterFetchDelete(call, listed, got)
       ELSE AfterFetchCreateRate(call, listed, got)

\* What the second request of a call ends in, which is what the call ends in
\* (const result = await ...; return result).
ResponseBody(request) == [responseTo |-> <<request.method, request.url>>]
RequestOutcome(request, reply) ==
    IF reply = "json" THEN Resolved(ResponseBody(request))
    ELSE IF reply = "empty" THEN Resolved(Null)
    ELSE Rejected("HTTPResponseError")

\* The FXP API's list after it served a request: a deleted channel is gone,
\* a created channel is appended under a fresh id.
RECURSIVE MaxId(_)
MaxId(list) ==
    IF Len(list) = 0 THEN -1
    ELSE IF Head(list).id > MaxId(Tail(list)) THEN Head(list).id ELSE MaxId(Tail(list))
Served(list, request, reply) ==
    IF reply = "error" THEN list
    ELSE IF request.method = "DELETE"
        THEN SelectSeq(list, LAMBDA ch : ChannelUrl(ch.id) # request.url)
    ELSE IF request.url = ChannelsUrl
        THEN Append(list, Channel(MaxId(list) + 1, request.body.sourceCurrency,
                                  request.body.destinationCurrency))
    ELSE list

\* --------------------------------- requests.js: get, put, post, del (lines 40-101)

\* The responses tried: res.status, res.ok (a status from 200 to 299),
\* res.headers.get('content-length') and what the body holds.
Statuses == {200, 201, 204, 400, 404, 500, 503}
ContentLengths == {"0", "17", "absent"}
Bodies == {"none", "json", "text"}
Response(status, contentLength, body) ==
    [status |-> status, ok |-> (status >= 200 /\ status < 300),
     contentLength |-> contentLength, body |-> body]
Responses ==
    {Response(st, len, body) : st \in Statuses, len \in ContentLengths, body \in Bodies}
IsResponse(r) ==
    /\ r \in Responses
    /\ r.contentLength = "0" => r.body = "none"
    /\ r.contentLength = "17" => r.body # "none"
    /\ r.status = 204 => r.body = "none"
NoResponse == Response(0, "absent", "none")

\* const reqOpts = { method, headers, body } of get, put, post and del
Methods == {"GET", "PUT", "POST", "DELETE"}
ReqOpts(method) ==
    [method |-> method,
     body |-> IF method \in {"PUT", "POST"} THEN "JSON.stringify(body)" ELSE "undefined"]
NoReqOpts == [method |-> "none", body |-> "undefined"]

\* new HTTPResponseError({ request: { body, endpoint }, msg, res, resp })
HTTPResponseError(body, r) ==
    [status |-> "rejected", error |-> "HTTPResponseError",
     value |-> [request |-> [body |-> body], res |-> r, resp |-> r.body]]

\* throwOrJson({ body })(res), lines 40-56.  res.json() rejects with a
\* FetchError when the body is not JSON.
throwOrJson(opts, r) ==
    IF r.contentLength = "0" \/ r.status = 204 THEN Resolved(Null)
    ELSE IF r.body # "json" THEN Rejected("FetchError")
    ELSE IF r.ok THEN Resolved([json |-> r.body])
    ELSE HTTPResponseError(opts.body, r)

\* ------------- admin/api.js: getFxpRatesPerCurrencyChannel (lines 244-316)

\* buildCustomFxpChannelIdentifier(fxpCurrencyChannel), lines 259-262
buildCustomFxpChannelIdentifier(fxpCurrencyChannel) ==
    toLowerCase(fxpCurrencyChannel.sourceCurrency)
        \o toLowerCase(fxpCurrencyChannel.destinationCurrency)

\* The rates the FXP API may hold for a channel, and the array get() resolves with.
RateLists == {<<>>, <<[rate |-> 7, decimalRate |-> 1]>>}
Array(items) == [type |-> "array", items |-> items]

\* What get() of a channel's rates ends in: the array, null for an empty
\* response, or an HTTPResponseError.
RatesOutcome(reply, rates) ==
    IF reply = "json" THEN Resolved(Array(rates))
    ELSE IF reply = "empty" THEN Resolved(Null)
    ELSE Rejected("HTTPResponseError")

\* result.rates.map((rate) => ({ ...rate, currencyPair })), lines 297-302
withCurrencyPair(rates, currencyChannel) ==
    Array([i \in 1..Len(rates.items) |->
            [rate |-> rates.items[i].rate, decimalRate |-> rates.items[i].decimalRate,
             currencyPair |-> currencyChannel.sourceCurrency
                                \o currencyChannel.destinationCurrency]])

\* The async callback of currencyChannels.map for one channel, once its
\* request has ended.  src/admin/api.js maps result.rates, and null.map(...)
\* is a TypeError; the other revision returns the result as it is.
channelCallback(lib, currencyChannel, outcome) ==
    IF outcome.status = "rejected" THEN outcome
    ELSE IF lib = "table"
        THEN Resolved([channel |-> currencyChannel, rates |-> outcome.value])
    ELSE IF outcome.value.type # "array" THEN Rejected("TypeError")
    ELSE Resolved([channel |-> currencyChannel,
                   rates |-> withCurrencyPair(outcome.value, currencyChannel)])

\* The forEach over ratesForAllCurrencyChannels: a later item overwrites an
\* earlier one stored under the same identifier.
ratesPerCurrencyChannel(items) ==
    LET kept == {i \in 1..Len(items) : items[i].rates.type = "array"}
        under(k) == {i \in kept : buildCustomFxpChannelIdentifier(items[i].channel) = k}
    IN [k \in {buildCustomFxpChannelIdentifier(items[i].channel) : i \in kept} |->
            items[CHOOSE i \in under(k) : \A j \in under(k) : j <= i].rates]

\* Promise.all over the callbacks, given the log of the requests: rejected
\* with the first rejection, resolved once every callback has resolved.
AfterRates(lib, list, log) ==
    LET cb(i) == channelCallback(lib, list[i], log[i + 1].outcome)
        ended == {i \in 1..Len(list) : log[i + 1].outcome.status # "pending"}
    IN IF \E i \in ended : cb(i).status = "rejected"
       THEN FxpStep("idle", NoFrame, log,
                    cb(CHOOSE i \in ended : cb(i).status = "rejected"))
       ELSE IF ended = 1..Len(list)
       THEN FxpStep("idle", NoFrame, log,
                    Resolved(ratesPerCurrencyChannel([i \in 1..Len(list) |-> cb(i).value])))
       ELSE FxpStep("collecting", NoFrame, log, FxpPending)

\* ------------------------- admin/api.js: funds in and out (lines 133-213)

MaxFsps == 2

\* The participants of the central ledger and their accounts; account ids
\* are numbers.
Fsp(name, ids) ==
    [name |-> StringValue(<<name>>), accounts |-> [i \in 1..Len(ids) |-> [id |-> NumberValue(2 * ids[i])]]]
Fsps == {Fsp("dfsp1", <<1, 2>>), Fsp("dfsp2", <<3>>), Fsp("dfsp3", <<4>>)}
IsFspList(list) ==
    \E n \in 0..MaxFsps :
        /\ list \in [1..n -> Fsps]
        /\ \A i, j \in 1..n : i # j => list[i] # list[j]

\* The account ids the calls are made with: numbers, and a number written as a string.
AccountIds == {NumberValue(2), NumberValue(6), NumberValue(18), StringValue(<<"1">>)}

NoFundsCall == [op |-> "none", accountId |-> Undefined]
FundsCallOf(op, accountId) == [op |-> op, accountId |-> accountId]

\* An error object: its class and its message, with the id the message names.
ErrorOf(name, text, id) == [name |-> name, text |-> text, id |-> id]
NoError_ == ErrorOf("", "", Undefined)
Settled(status, value, error) == [status |-> status, value |-> value, error |-> error]
FundsPending == Settled("pending", <<>>, NoError_)

\* p.accounts.findIndex((a) => a.id === accountId) !== -1
OwnsAccount(p, accountId) == \E i \in 1..Len(p.accounts) : p.accounts[i].id = accountId

\* participants.find(...): the index of the first match, 0 for undefined.
findFsp(list, accountId) ==
    IF \E i \in 1..Len(list) : OwnsAccount(list[i], accountId)
    THEN CHOOSE i \in 1..Len(list) :
            /\ OwnsAccount(list[i], accountId)
            /\ \A j \in 1..(i - 1) : ~OwnsAccount(list[j], accountId)
    ELSE 0

\* getParticipantByAccountId after the list arrived (lines 135-140): reading
\* fsp.name of an undefined fsp is a TypeError.
getParticipantByAccountId(list, accountId) ==
    IF findFsp(list, accountId) = 0
    THEN Settled("rejected", <<>>,
                 ErrorOf("TypeError", "Cannot read property 'name' of undefined", Undefined))
    ELSE IF list[findFsp(list, accountId)].name = Undefined
    THEN Settled("rejected", <<>>,
                 ErrorOf("Error", "Couldn't find fsp with account ID ", accountId))
    ELSE Settled("resolved", list[findFsp(list, accountId)], NoError_)

\* post(participants/{participantName}/accounts/{accountId}, { action, ... })
FundsPost(op, participantName, accountId) ==
    [method |-> "POST", url |-> <<"participants", participantName, "accounts", accountId>>,
     action |-> IF op = "fundsInReserve" THEN "recordFundsIn"
                ELSE "recordFundsOutPrepareReserve",
     reply |-> "none"]
ParticipantsGet ==
    [method |-> "GET", url |-> <<"participants">>, action |-> "", reply |-> "none"]

\* Where a funds call stands after the list of participants has arrived.
AfterParticipants(call, reply, list) ==
    LET found == getParticipantByAccountId(list, call.accountId) IN
    IF reply = "error"
    THEN [pc |-> "done", post |-> <<>>,
          result |-> Settled("rejected", <<>>, ErrorOf("HTTPResponseError", "", Undefined))]
    \* null.find(...) is a TypeError
    ELSE IF reply = "empty"
    THEN [pc |-> "done", post |-> <<>>,
          result |-> Settled("rejected", <<>>,
                             ErrorOf("TypeError", "Cannot read property 'find' of null",
                                     Undefined))]
    ELSE IF call.op = "getParticipantByAccountId" \/ found.status = "rejected"
    THEN [pc |-> "done", post |-> <<>>, result |-> found]
    ELSE [pc |-> "posting",
          post |-> <<FundsPost(call.op, found.value.name, call.accountId)>>,
          result |-> FundsPending]

\* ----------------------- onboarding/onboarding.js: sendRequest (lines 14-30)

MaxTimeout == 2
MaxElapsed == 3

\* The functions given as fetchFunc: node-fetch, which rejects with an
\* AbortError when its signal is aborted while the request is pending, and a
\* function that never reads the signal it is given.
FetchFuncs == {"fetch", "ignoresSignal"}

\* What the promise of fetchFunc may settle with by itself: a response, or an
\* error of the given name.  Only the abort of its signal makes node-fetch
\* reject with an AbortError; another function may throw whatever it likes.
FetchOutcomes(func) ==
    {Resolved([status |-> st]) : st \in {200, 500}}
        \cup {Rejected("FetchError")}
        \cup (IF func = "fetch" THEN {} ELSE {Rejected("AbortError")})

\* controller.abort(): the signal is aborted, and node-fetch rejects a
\* request that is still pending.
abort(func, promise) ==
    IF func = "fetch" /\ promise.status = "pending" THEN Rejected("AbortError") ELSE promise

\* clearTimeout(timeoutId): a timer that has not fired is cancelled.
clearTimeout(t) == IF t = "armed" THEN "cleared" ELSE t

\* Faulty variant: the catch block rethrows every error as it is.
sendRequestSettlesRethrowing(promise) == promise

\* The try and catch blocks once fetchFunc's promise has settled (lines
\* 19-29): the result is returned, an error named AbortError is replaced by
\* Error('Request timed out.'), any other error is rethrown.
sendRequestSettles(promise) ==
    IF promise.status = "resolved" THEN promise
    ELSE IF promise.error = "AbortError" THEN Rejected("Request timed out.")
    ELSE promise

\* ------------------------------------------------------------ the behaviour

\* No settlement is being processed.
SettlementIdle ==
    /\ input = [participants |-> <<>>]
    /\ inputAtCall = input
    /\ pc = "idle"
    /\ participants = <<>>
    /\ creditors = <<>>
    /\ debtors = <<>>
    /\ creditor = <<>>
    /\ matrix = <<>>
    /\ result = Pending
    /\ template = NoTemplate
    /\ templateAtCall = NoTemplate
    /\ dfspConf = <<>>
    /\ formatLog = <<>>

\* buildDecimalRate is not being called.
RateIdle ==
    /\ rate = Undefined
    /\ decimalPlaces = Undefined
    /\ decimalRate = NotCalled

\* None of get, put, post and del is being called.
RequestIdle ==
    /\ reqPc = "idle"
    /\ reqOpts = NoReqOpts
    /\ response = NoResponse
    /\ requestResult = FxpPending

\* No funds call is being made.
FundsIdle ==
    /\ fsps = <<>>
    /\ fundsCall = NoFundsCall
    /\ fundsPc = "idle"
    /\ fundsLog = <<>>
    /\ fundsResult = FundsPending

\* sendRequest is not being called.
SendIdle ==
    /\ sendPc = "idle"
    /\ fetchFunc = "fetch"
    /\ timeout = 1
    /\ elapsed = 0
    /\ timer = "unset"
    /\ aborted = FALSE
    /\ fetchPromise = FxpPending
    /\ sendResult = FxpPending

HelpersIdle == RequestIdle /\ FundsIdle /\ SendIdle

\* No currency-channel operation is being called.
FxpIdle ==
    /\ library = "rateDetails"
    /\ channels = <<>>
    /\ fxpCall = NoCall
    /\ fxpPc = "idle"
    /\ fxpFrame = NoFrame
    /\ httpLog = <<>>
    /\ fxpResult = FxpPending
    /\ fxpCalls = 0

Init ==
    /\ IsInput(input)
    /\ inputAtCall = input
    /\ pc = "project"
    /\ participants = <<>>
    /\ creditors = <<>>
    /\ debtors = <<>>
    /\ creditor = <<>>
    /\ matrix = <<>>
    /\ result = Pending
    /\ template = NoTemplate
    /\ templateAtCall = NoTemplate
    /\ dfspConf = <<>>
    /\ formatLog = <<>>
    /\ RateIdle
    /\ FxpIdle
    /\ HelpersIdle

\* lines 52-59
ProjectAct ==
    /\ pc = "project"
    /\ participants' = Project(input)
    /\ input' = InputAfterProject(input)
    /\ pc' = "validate"
    /\ UNCHANGED <<inputAtCall, creditors, debtors, creditor, matrix, result>>
    /\ UNCHANGED formatVars
    /\ UNCHANGED rateVars
    /\ UNCHANGED helperVars
    /\ UNCHANGED fxpVars

\* lines 61-112.  splice() removes the debtors from participants (line 110).
ValidateAct ==
    /\ pc = "validate"
    /\ SetFrame(AfterValidate(input, participants))
    /\ participants' = IF Validate(input, participants) # NoError THEN participants
                       ELSE SplitCreditors(participants)
    /\ UNCHANGED <<input, inputAtCall>>
    /\ UNCHANGED formatVars
    /\ UNCHANGED rateVars
    /\ UNCHANGED helperVars
    /\ UNCHANGED fxpVars

\* lines 113-114.  creditors and participants name the same array (line 111),
\* so the pop shows in both.
OuterLoop ==
    /\ pc = "outer"
    /\ SetFrame(OuterStep(Frame))
    /\ participants' = creditors'
    /\ UNCHANGED <<input, inputAtCall>>
    /\ UNCHANGED formatVars
    /\ UNCHANGED rateVars
    /\ UNCHANGED helperVars
    /\ UNCHANGED fxpVars

\* lines 117-121
InnerLoop ==
    /\ pc = "inner"
    /\ SetFrame(InnerStep(Frame))
    /\ UNCHANGED <<input, inputAtCall, participants>>
    /\ UNCHANGED formatVars
    /\ UNCHANGED rateVars
    /\ UNCHANGED helperVars
    /\ UNCHANGED fxpVars

\* lines 123-127
PartialDraw ==
    /\ pc = "partial"
    /\ SetFrame(PartialStep(Frame))
    /\ UNCHANGED <<input, inputAtCall, participants>>
    /\ UNCHANGED formatVars
    /\ UNCHANGED rateVars
    /\ UNCHANGED helperVars
    /\ UNCHANGED fxpVars

\* lines 130-140
Finish ==
    /\ pc = "final"
    /\ SetFrame(FinalStep(Frame, input))
    /\ UNCHANGED <<input, inputAtCall, participants>>
    /\ UNCHANGED formatVars
    /\ UNCHANGED rateVars
    /\ UNCHANGED helperVars
    /\ UNCHANGED fxpVars

\* format(raw, dfspConf, template, windowId) on the matrix the netting call
\* returned.  The first call is given a freshly parsed template and a
\* directory; a later call is given the same template object and directory.
FormatAct ==
    /\ pc = "done"
    /\ result.status = "returned"
    /\ Len(input.participants) <= MaxFormatParticipants
    /\ Len(formatLog) < MaxFormatCalls
    /\ \E tpl \in (IF Len(formatLog) = 0 THEN Templates ELSE {template}),
          conf \in (IF Len(formatLog) = 0 THEN Directories(input) ELSE {dfspConf}),
          windowId \in WindowIds, now \in Clock :
        \E msgId \in (IF DrawsMsgId(result, conf, tpl) THEN RandomMsgIds ELSE {""}),
           e2e \in (IF DrawsEndToEndIds(result, conf, tpl)
                    THEN EndToEndDraws(result.matrix) ELSE {<<>>}) :
            LET out == format(result, conf, tpl, windowId, msgId, e2e, now) IN
            /\ templateAtCall' = tpl
            /\ template' = out.template
            /\ dfspConf' = conf
            /\ formatLog' = Append(formatLog,
                    [windowId |-> windowId, now |-> now, msgId |-> msgId, e2e |-> e2e,
                     status |-> out.status, error |-> out.error, missing |-> out.missing,
                     doc |-> IF out.status = "returned" THEN out.template ELSE NoTemplate])
    /\ UNCHANGED <<input, inputAtCall>>
    /\ UNCHANGED nettingVars
    /\ UNCHANGED rateVars
    /\ UNCHANGED helperVars
    /\ UNCHANGED fxpVars

Next ==
    \/ FormatAct
    \/ ProjectAct
    \/ ValidateAct
    \/ OuterLoop
    \/ InnerLoop
    \/ PartialDraw
    \/ Finish

Spec == Init /\ [][Next]_vars

\* minPaymentsAlgorithm is synchronous code: once called it keeps running,
\* statement after statement, until it returns or throws.
NettingStep ==
    ProjectAct \/ ValidateAct \/ OuterLoop \/ InnerLoop \/ PartialDraw \/ Finish

SpecLive == Init /\ [][NettingStep]_vars /\ WF_vars(NettingStep)

\* A call of buildDecimalRate with any of the values tried.
InitRate ==
    /\ SettlementIdle
    /\ rate \in RateValues
    /\ decimalPlaces \in PlacesValues
    /\ decimalRate = NotCalled
    /\ FxpIdle
    /\ HelpersIdle

\* buildDecimalRate(rate, decimalPlaces)
BuildDecimalRateAct ==
    /\ decimalRate = NotCalled
    /\ decimalRate' = buildDecimalRate(rate, decimalPlaces)
    /\ UNCHANGED <<rate, decimalPlaces>>
    /\ UNCHANGED settlementVars
    /\ UNCHANGED fxpVars
    /\ UNCHANGED helperVars

NextRate == BuildDecimalRateAct

SpecRate == InitRate /\ [][NextRate]_vars

\* The FXP API holds some channels and no call has been made.
InitFxp ==
    /\ SettlementIdle
    /\ RateIdle
    /\ library \in Libraries
    /\ IsChannelList(channels)
    /\ fxpCall = NoCall
    /\ fxpPc = "idle"
    /\ fxpFrame = NoFrame
    /\ httpLog = <<>>
    /\ fxpResult = FxpPending
    /\ fxpCalls = 0
    /\ HelpersIdle

\* A call begins: its statements up to the first await, which is the GET of
\* getFxpCurrencyChannels (lines 232-235).
BeginCall(call, body) ==
    /\ fxpCall' = call
    /\ fxpFrame' = [NoFrame EXCEPT !.body = body]
    /\ httpLog' = <<Sent("GET", ChannelsUrl, NoBody)>>
    /\ fxpResult' = FxpPending
    /\ fxpPc' = "fetching"
    /\ fxpCalls' = fxpCalls + 1
    /\ UNCHANGED <<library, channels>>
    /\ UNCHANGED settlementVars
    /\ UNCHANGED rateVars
    /\ UNCHANGED helperVars

AllChannelDetails == {[status |-> "Active"]}

\* createFxpCurrencyChannel(endpoint, currencyPair, channelDetails), lines 514-522
CreateFxpCurrencyChannelCall ==
    /\ fxpPc = "idle"
    /\ fxpCalls < MaxFxpCalls
    /\ \E currencyPair \in CurrencyPairs, channelDetails \in AllChannelDetails :
        BeginCall(FxpCall("createFxpCurrencyChannel", currencyPair, channelDetails),
                  [sourceCurrency |-> toUpperCase(extractSourceCurrency(currencyPair)),
                   destinationCurrency |->
                        toUpperCase(extractDestinationCurrency(currencyPair)),
                   channelDetails |-> channelDetails])

\* deleteFxpCurrencyChannel(endpoint, currencyPair), lines 484-488
DeleteFxpCurrencyChannelCall ==
    /\ fxpPc = "idle"
    /\ fxpCalls < MaxFxpCalls
    /\ \E currencyPair \in CurrencyPairs :
        BeginCall(FxpCall("deleteFxpCurrencyChannel", currencyPair, <<>>), NoBody)

\* createFxpRateForCurrencyChannel(endpoint, currencyPair, rateDetails), lines 447-460
CreateFxpRateForCurrencyChannelCall ==
    /\ fxpPc = "idle"
    /\ fxpCalls < MaxFxpCalls
    /\ \E currencyPair \in CurrencyPairs, rateDetails \in AllRateDetails :
        BeginCall(FxpCall("createFxpRateForCurrencyChannel", currencyPair, rateDetails),
                  [rate |-> rateDetails.rate,
                   decimalRate |-> rateDetails.decimalRate,
                   startTime |-> rateDetails.startTime,
                   endTime |-> rateDetails.endTime,
                   reuse |-> rateDetails.reuse,
                   forexProviderInfo |->
                        IF rateDetails.forexProviderInfo # Undefined
                        THEN rateDetails.forexProviderInfo
                        ELSE getForexProviderInfo(library, currencyPair, rateDetails)])

\* The GET ends and the call runs on to its next await or to its end.
ChannelsFetched ==
    /\ fxpPc = "fetching"
    /\ \E reply \in Replies :
        LET step == AfterFetch(fxpCall, fxpFrame, httpLog, reply, channels) IN
        /\ fxpPc' = step.pc
        /\ fxpFrame' = step.frame
        /\ httpLog' = step.log
        /\ fxpResult' = step.result
    /\ UNCHANGED <<library, channels, fxpCall, fxpCalls>>
    /\ UNCHANGED settlementVars
    /\ UNCHANGED rateVars
    /\ UNCHANGED helperVars

\* The POST or DELETE ends and the call returns its result.
RequestCompleted ==
    /\ fxpPc = "sending"
    /\ \E reply \in Replies :
        /\ fxpResult' = RequestOutcome(Last(httpLog), reply)
        /\ httpLog' = [httpLog EXCEPT ![Len(httpLog)].outcome =
                            RequestOutcome(Last(httpLog), reply)]
        /\ channels' = Served(channels, Last(httpLog), reply)
    /\ fxpPc' = "idle"
    /\ UNCHANGED <<library, fxpCall, fxpFrame, fxpCalls>>
    /\ UNCHANGED settlementVars
    /\ UNCHANGED rateVars
    /\ UNCHANGED helperVars

NextFxp ==
    \/ CreateFxpCurrencyChannelCall
    \/ DeleteFxpCurrencyChannelCall
    \/ CreateFxpRateForCurrencyChannelCall
    \/ ChannelsFetched
    \/ RequestCompleted

SpecFxp == InitFxp /\ [][NextFxp]_vars

\* getFxpRatesPerCurrencyChannel(endpoint), line 289
GetFxpRatesPerCurrencyChannelCall ==
    /\ fxpPc = "idle"
    /\ fxpCalls < MaxFxpCalls
    /\ BeginCall(FxpCall("getFxpRatesPerCurrencyChannel", <<>>, <<>>), NoBody)

\* The list of channels arrives and one request per channel is issued
\* (lines 290-306); null.map(...) of line 292 is a TypeError.
RateChannelsFetched ==
    /\ fxpPc = "fetching"
    /\ \E reply \in Replies :
        LET got == [httpLog EXCEPT ![1].outcome =
                        IF reply = "json" THEN Resolved(channels)
                        ELSE IF reply = "empty" THEN Resolved(Null)
                        ELSE Rejected("HTTPResponseError")]
            asked == got \o [i \in 1..Len(channels) |->
                                Sent("GET", RatesUrl(channels[i].id), NoBody)]
            step == IF reply = "error"
                    THEN FxpStep("idle", fxpFrame, got, Rejected("HTTPResponseError"))
                    ELSE IF reply = "empty"
                    THEN FxpStep("idle", [fxpFrame EXCEPT !.fetched = "null"], got,
                                 Rejected("TypeError"))
                    ELSE AfterRates(library, channels, asked)
        IN  /\ fxpPc' = step.pc
            /\ httpLog' = step.log
            /\ fxpResult' = step.result
            /\ fxpFrame' = IF reply = "json"
                            THEN [fxpFrame EXCEPT !.fetched = "list",
                                                  !.currencyChannels = channels]
                            ELSE step.frame
    /\ UNCHANGED <<library, channels, fxpCall, fxpCalls>>
    /\ UNCHANGED settlementVars
    /\ UNCHANGED rateVars
    /\ UNCHANGED helperVars

\* The request for one channel's rates ends (getFxpRatesForChannel, lines
\* 244-251), its callback runs, and Promise.all may settle (lines 291-315).
RatesFetched ==
    /\ fxpPc = "collecting"
    /\ \E i \in 2..Len(httpLog), reply \in Replies, rates \in RateLists :
        /\ httpLog[i].outcome.status = "pending"
        /\ reply # "json" => rates = <<>>
        /\ LET step == AfterRates(library, fxpFrame.currencyChannels,
                                  [httpLog EXCEPT ![i].outcome = RatesOutcome(reply, rates)])
           IN  /\ fxpPc' = step.pc
               /\ httpLog' = step.log
               /\ fxpResult' = step.result
    /\ UNCHANGED <<library, channels, fxpCall, fxpFrame, fxpCalls>>
    /\ UNCHANGED settlementVars
    /\ UNCHANGED rateVars
    /\ UNCHANGED helperVars

NextFxpRates ==
    \/ GetFxpRatesPerCurrencyChannelCall
    \/ RateChannelsFetched
    \/ RatesFetched

SpecFxpRates == InitFxp /\ [][NextFxpRates]_vars


\* No request has been made.
InitRequests ==
    /\ SettlementIdle
    /\ RateIdle
    /\ FxpIdle
    /\ RequestIdle
    /\ FundsIdle
    /\ SendIdle

\* get(url, opts), put(url, body, opts), post(url, body, opts), del(url, opts):
\* reqOpts is built and fetch is called.
RequestCall ==
    /\ reqPc \in {"idle", "done"}
    /\ \E method \in Methods : reqOpts' = ReqOpts(method)
    /\ response' = NoResponse
    /\ requestResult' = FxpPending
    /\ reqPc' = "fetching"
    /\ UNCHANGED settlementVars
    /\ UNCHANGED rateVars
    /\ UNCHANGED fxpVars
    /\ UNCHANGED fundsVars
    /\ UNCHANGED sendVars

\* fetch resolves with a response and .then(throwOrJson(reqOpts)) settles the call.
ResponseArrives ==
    /\ reqPc = "fetching"
    /\ IsResponse(response')
    /\ requestResult' = throwOrJson(reqOpts, response')
    /\ reqPc' = "done"
    /\ UNCHANGED reqOpts
    /\ UNCHANGED settlementVars
    /\ UNCHANGED rateVars
    /\ UNCHANGED fxpVars
    /\ UNCHANGED fundsVars
    /\ UNCHANGED sendVars

NextRequests == RequestCall \/ ResponseArrives

SpecRequests == InitRequests /\ [][NextRequests]_vars

\* The central ledger holds some participants and no funds call has been made.
InitFunds ==
    /\ SettlementIdle
    /\ RateIdle
    /\ FxpIdle
    /\ RequestIdle
    /\ SendIdle
    /\ IsFspList(fsps)
    /\ fundsCall = NoFundsCall
    /\ fundsPc = "idle"
    /\ fundsLog = <<>>
    /\ fundsResult = FundsPending

\* A call begins: its statements up to the first await, which is the GET of
\* getParticipantByAccountId (line 134).
BeginFundsCall(op) ==
    /\ \E accountId \in AccountIds : fundsCall' = FundsCallOf(op, accountId)
    /\ fundsLog' = <<ParticipantsGet>>
    /\ fundsResult' = FundsPending
    /\ fundsPc' = "fetching"
    /\ UNCHANGED fsps
    /\ UNCHANGED settlementVars
    /\ UNCHANGED rateVars
    /\ UNCHANGED fxpVars
    /\ UNCHANGED requestVars
    /\ UNCHANGED sendVars

\* getParticipantByAccountId(endpoint, accountId), lines 133-134
GetParticipantByAccountIdCall ==
    /\ fundsPc \in {"idle", "done"}
    /\ BeginFundsCall("getParticipantByAccountId")

\* fundsInReserve(endpoint, accountId, amount, reason, currency), lines 207-209
FundsInReserveCall ==
    /\ fundsPc \in {"idle", "done"}
    /\ BeginFundsCall("fundsInReserve")

\* fundsOutPrepareReserve(endpoint, accountId, amount, currency, reason), lines 171-173
FundsOutPrepareReserveCall ==
    /\ fundsPc \in {"idle", "done"}
    /\ BeginFundsCall("fundsOutPrepareReserve")

\* The GET ends and the call runs on to its POST or to its end.
ParticipantsFetched ==
    /\ fundsPc = "fetching"
    /\ \E reply \in Replies :
        LET step == AfterParticipants(fundsCall, reply, fsps) IN
        /\ fundsPc' = step.pc
        /\ fundsLog' = <<[ParticipantsGet EXCEPT !.reply = reply]>> \o step.post
        /\ fundsResult' = step.result
    /\ UNCHANGED <<fsps, fundsCall>>
    /\ UNCHANGED settlementVars
    /\ UNCHANGED rateVars
    /\ UNCHANGED fxpVars
    /\ UNCHANGED requestVars
    /\ UNCHANGED sendVars

\* The POST ends: await post(...); return { transferId }.
FundsPosted ==
    /\ fundsPc = "posting"
    /\ \E reply \in Replies :
        /\ fundsResult' =
            IF reply = "error"
            THEN Settled("rejected", <<>>, ErrorOf("HTTPResponseError", "", Undefined))
            ELSE Settled("resolved", [transferId |-> "uuidv4()"], NoError_)
        /\ fundsLog' = [fundsLog EXCEPT ![Len(fundsLog)].reply = reply]
    /\ fundsPc' = "done"
    /\ UNCHANGED <<fsps, fundsCall>>
    /\ UNCHANGED settlementVars
    /\ UNCHANGED rateVars
    /\ UNCHANGED fxpVars
    /\ UNCHANGED requestVars
    /\ UNCHANGED sendVars

NextFunds ==
    \/ GetParticipantByAccountIdCall
    \/ FundsInReserveCall
    \/ FundsOutPrepareReserveCall
    \/ ParticipantsFetched
    \/ FundsPosted

SpecFunds == InitFunds /\ [][NextFunds]_vars

\* sendRequest is about to be called with some timeout and some fetchFunc.
InitSend ==
    /\ SettlementIdle
    /\ RateIdle
    /\ FxpIdle
    /\ RequestIdle
    /\ FundsIdle
    /\ sendPc = "idle"
    /\ fetchFunc \in FetchFuncs
    /\ timeout \in 1..MaxTimeout
    /\ elapsed = 0
    /\ timer = "unset"
    /\ aborted = FALSE
    /\ fetchPromise = FxpPending
    /\ sendResult = FxpPending

\* The await of line 20 can resume: a microtask, which runs before any timer.
Resuming == sendPc = "awaiting" /\ fetchPromise.status # "pending"

\* sendRequest(request, timeout, fetchFunc) up to its await (lines 15-20):
\* the timer is set and fetchFunc is called.
SendRequestCall ==
    /\ sendPc = "idle"
    /\ timer' = "armed"
    /\ sendPc' = "awaiting"
    /\ UNCHANGED <<fetchFunc, timeout, elapsed, aborted, fetchPromise, sendResult>>
    /\ UNCHANGED settlementVars
    /\ UNCHANGED rateVars
    /\ UNCHANGED fxpVars
    /\ UNCHANGED requestVars
    /\ UNCHANGED fundsVars

\* Time passes; a timer that is due fires before more time passes.
Tick ==
    /\ sendPc # "idle"
    /\ ~Resuming
    /\ elapsed < MaxElapsed
    /\ ~(timer = "armed" /\ elapsed >= timeout)
    /\ elapsed' = elapsed + 1
    /\ UNCHANGED <<sendPc, fetchFunc, timeout, timer, aborted, fetchPromise, sendResult>>
    /\ UNCHANGED settlementVars
    /\ UNCHANGED rateVars
    /\ UNCHANGED fxpVars
    /\ UNCHANGED requestVars
    /\ UNCHANGED fundsVars

\* The callback of setTimeout (line 16): controller.abort().
TimerFires ==
    /\ timer = "armed"
    /\ ~Resuming
    /\ elapsed >= timeout
    /\ timer' = "fired"
    /\ aborted' = TRUE
    /\ fetchPromise' = abort(fetchFunc, fetchPromise)
    /\ UNCHANGED <<sendPc, fetchFunc, timeout, elapsed, sendResult>>
    /\ UNCHANGED settlementVars
    /\ UNCHANGED rateVars
    /\ UNCHANGED fxpVars
    /\ UNCHANGED requestVars
    /\ UNCHANGED fundsVars

\* The promise of fetchFunc settles by itself.
FetchSettles ==
    /\ sendPc = "awaiting"
    /\ fetchPromise.status = "pending"
    /\ fetchPromise' \in FetchOutcomes(fetchFunc)
    /\ UNCHANGED <<sendPc, fetchFunc, timeout, elapsed, timer, aborted, sendResult>>
    /\ UNCHANGED settlementVars
    /\ UNCHANGED rateVars
    /\ UNCHANGED fxpVars
    /\ UNCHANGED requestVars
    /\ UNCHANGED fundsVars

\* The await resumes (lines 20-28): clearTimeout, then return or throw.
SendRequestResumes ==
    /\ Resuming
    /\ timer' = clearTimeout(timer)
    /\ sendResult' = sendRequestSettles(fetchPromise)
    /\ sendPc' = "done"
    /\ UNCHANGED <<fetchFunc, timeout, elapsed, aborted, fetchPromise>>
    /\ UNCHANGED settlementVars
    /\ UNCHANGED rateVars
    /\ UNCHANGED fxpVars
    /\ UNCHANGED requestVars
    /\ UNCHANGED fundsVars

NextSend ==
    \/ SendRequestCall
    \/ Tick
    \/ TimerFires
    \/ FetchSettles
    \/ SendRequestResumes

SpecSend == InitSend /\ [][NextSend]_vars




\* ------------------------------------------------- what the claims speak of

\* Participant i's net amount and id as given in the argument.
InputAmount(inp, i) == inp.participants[i].accounts[1].netSettlementAmount.amount
InputId(inp, i) == inp.participants[i].id
NumParticipants(inp) == Len(inp.participants)
InputSum(inp) == SumSeq([i \in 1..NumParticipants(inp) |-> InputAmount(inp, i)])

\* The row and column sums of a matrix.
RowSum(m, payer) == SumSet(m[payer], DOMAIN m[payer])
ColSum(m, payee) ==
    LET paying == {q \in DOMAIN m : payee \in DOMAIN m[q]}
        col == [q \in paying |-> m[q][payee]]
    IN SumSet(col, paying)

HasReturned == result.status = "returned"

\* C1: in a returned matrix every debtor of the input is a payer whose
\* payments sum to its input amount, every creditor is a payee whose receipts
\* sum to the absolute value of its input amount, and no one else pays or is
\* paid anything but those sums.
C1_Conservation ==
    HasReturned =>
        /\ \A i \in 1..NumParticipants(input) :
            /\ InputAmount(input, i) > 0 =>
                /\ InputId(input, i) \in DOMAIN result.matrix
                /\ RowSum(result.matrix, InputId(input, i)) = InputAmount(input, i)
            /\ InputAmount(input, i) < 0 =>
                /\ InputId(input, i) \in Payees(result.matrix)
                /\ ColSum(result.matrix, InputId(input, i)) = -InputAmount(input, i)
        /\ \A payer \in DOMAIN result.matrix :
            \E i \in 1..NumParticipants(input) :
                /\ InputId(input, i) = payer
                /\ RowSum(result.matrix, payer) = InputAmount(input, i)
        /\ \A payee \in Payees(result.matrix) :
            \E i \in 1..NumParticipants(input) :
                /\ InputId(input, i) = payee
                /\ ColSum(result.matrix, payee) = -InputAmount(input, i)

\* A returned matrix in which one payer pays two payees and one payee is paid
\* by two payers (a partial draw and an exhausted debtor both happened).
C1_Witness ==
    /\ HasReturned
    /\ \E payer \in DOMAIN result.matrix : Cardinality(DOMAIN result.matrix[payer]) >= 2
    /\ \E payee \in Payees(result.matrix) :
        Cardinality({q \in DOMAIN result.matrix : payee \in DOMAIN result.matrix[q]}) >= 2

\* C2: every amount in a returned matrix is strictly positive.
C2_AmountsPositive ==
    HasReturned => \A c \in Cells(result.matrix) : result.matrix[c[1]][c[2]] > 0

\* C3: an input whose amounts do not sum to zero never gets a matrix: the
\* call throws.
C3_ZeroSumRejection ==
    InputSum(input) # 0 =>
        /\ ~HasReturned
        /\ pc = "done" => result.status = "thrown"

\* A single participant with a non-zero amount was rejected for its sum.
C3_Witness ==
    /\ NumParticipants(input) = 1
    /\ InputSum(input) # 0
    /\ result.status = "thrown"
    /\ result.error = "NonZeroSum"
    /\ result.sum = InputSum(input)

\* C4: for an input that passes validation the debtor stack is empty when the
\* loop ends, and 'Failed to balance payments' is never thrown.
C4_FailedToBalanceUnreachable ==
    /\ pc = "final" => Len(debtors) = 0
    /\ result.error # "FailedToBalance"

\* C5: a returned matrix has at most n - 1 cells for n participants.
C5_AtMostNMinusOneCells ==
    HasReturned => Cardinality(Cells(result.matrix)) <= NumParticipants(input) - 1

\* A returned matrix of exactly n - 1 cells for four or more participants.
C5_Witness ==
    /\ HasReturned
    /\ NumParticipants(input) >= 4
    /\ Cardinality(Cells(result.matrix)) = NumParticipants(input) - 1


\* ---- the validation rules, read off the argument

InputCurrency(inp, i) == inp.participants[i].accounts[1].netSettlementAmount.currency
IsEmpty(inp) == NumParticipants(inp) = 0
HasMultipleAccounts(inp) ==
    \E i \in 1..NumParticipants(inp) : Len(inp.participants[i].accounts) # 1
HasDuplicateIds(inp) ==
    \E i, j \in 1..NumParticipants(inp) : i < j /\ InputId(inp, i) = InputId(inp, j)
HasMixedCurrencies(inp) ==
    \E i, j \in 1..NumParticipants(inp) : InputCurrency(inp, i) # InputCurrency(inp, j)
HasUnsupportedCurrency(inp) ==
    \E i \in 1..NumParticipants(inp) : InputCurrency(inp, i) \notin KnownCurrencies
\* Participant i's amount has more fractional digits than dp allows.
TooPrecise(inp, i, dp) ==
    dp < FracDigits /\ InputAmount(inp, i) % Pow10(FracDigits - dp) # 0
Offenders(inp) ==
    {i \in 1..NumParticipants(inp) :
        TooPrecise(inp, i, currencies[InputCurrency(inp, 1)].dp)}
HasNonZeroSum(inp) == InputSum(inp) # 0

ValidationErrors ==
    {"NoParticipants", "MultipleAccounts", "DuplicateParticipant", "MixedCurrencies",
     "UnsupportedCurrency", "InvalidPrecision", "NonZeroSum"}

\* The first failing rule in the order the claim gives; "" when none fails.
FirstFailureClaimed(inp) ==
    IF IsEmpty(inp) THEN "NoParticipants"
    ELSE IF HasMultipleAccounts(inp) THEN "MultipleAccounts"
    ELSE IF HasDuplicateIds(inp) THEN "DuplicateParticipant"
    ELSE IF HasMixedCurrencies(inp) THEN "MixedCurrencies"
    ELSE IF HasUnsupportedCurrency(inp) THEN "UnsupportedCurrency"
    ELSE IF Offenders(inp) # {} THEN "InvalidPrecision"
    ELSE IF HasNonZeroSum(inp) THEN "NonZeroSum"
    ELSE ""

\* The same rules with the account rule last.
FirstFailureAccountsLast(inp) ==
    IF IsEmpty(inp) THEN "NoParticipants"
    ELSE IF HasDuplicateIds(inp) THEN "DuplicateParticipant"
    ELSE IF HasMixedCurrencies(inp) THEN "MixedCurrencies"
    ELSE IF HasUnsupportedCurrency(inp) THEN "UnsupportedCurrency"
    ELSE IF Offenders(inp) # {} THEN "InvalidPrecision"
    ELSE IF HasNonZeroSum(inp) THEN "NonZeroSum"
    ELSE IF HasMultipleAccounts(inp) THEN "MultipleAccounts"
    ELSE ""

Validated == pc \notin {"project", "validate"}

\* C6 as claimed: the error thrown is the first failing rule in the order
\* empty, multiple accounts, duplicate, mixed currencies, unsupported
\* currency, precision, non-zero sum.
C6_ClaimedOrder ==
    Validated =>
        IF FirstFailureClaimed(input) = ""
        THEN result.error \notin ValidationErrors
        ELSE result.status = "thrown" /\ result.error = FirstFailureClaimed(input)

\* C6 amended: the error thrown is the first failing rule in the order empty,
\* duplicate, mixed currencies, unsupported currency, precision, non-zero
\* sum, multiple accounts.
C6_AccountsCheckedLast ==
    Validated =>
        IF FirstFailureAccountsLast(input) = ""
        THEN result.error \notin ValidationErrors
        ELSE result.status = "thrown" /\ result.error = FirstFailureAccountsLast(input)

\* An input with a two-account participant and duplicate ids was rejected as
\* a duplicate.
C6_Witness ==
    /\ HasMultipleAccounts(input)
    /\ HasDuplicateIds(input)
    /\ result.status = "thrown"
    /\ result.error = "DuplicateParticipant"

\* The (id, amount) pairs an InvalidPrecision error lists.
ListedOffenders(r) == {<<r.ids[k], r.amounts[k]>> : k \in 1..Len(r.ids)}

\* C7: with one supported currency, an input with an amount too precise for
\* the currency is rejected; it is rejected for precision unless an earlier
\* rule already failed; a precision error lists the id and amount of every
\* offender; an input without offenders is never rejected for precision.
C7_PrecisionConformance ==
    (~IsEmpty(input) /\ ~HasMixedCurrencies(input) /\ ~HasUnsupportedCurrency(input)) =>
        /\ Offenders(input) # {} =>
            /\ ~HasReturned
            /\ Validated => result.status = "thrown"
            /\ (Validated /\ ~HasDuplicateIds(input)) => result.error = "InvalidPrecision"
        /\ result.error = "InvalidPrecision" =>
            /\ Len(result.ids) = Len(result.amounts)
            /\ Len(result.ids) = Cardinality(Offenders(input))
            /\ ListedOffenders(result) =
                {<<InputId(input, i), InputAmount(input, i)>> : i \in Offenders(input)}
        /\ Offenders(input) = {} => result.error # "InvalidPrecision"

\* A precision error that lists two offenders.
C7_Witness ==
    /\ result.error = "InvalidPrecision"
    /\ Cardinality(Offenders(input)) = 2
    /\ Len(result.ids) = 2

\* The permutations of 1..n, and the input with its participants permuted.
Orderings(n) == {f \in [1..n -> 1..n] : \A i, j \in 1..n : f[i] = f[j] => i = j}
Reordered(inp, f) ==
    [inp EXCEPT !.participants = [i \in 1..Len(@) |-> @[f[i]]]]

\* C8: the sorted positions are ordered by amount and, among equal amounts,
\* by ascending participant id; and the matrix returned is the one returned
\* for every reordering of the participants array.
C8_TieBreakById ==
    /\ (pc = "validate" /\ Validate(input, participants) = NoError) =>
        \A i, j \in 1..Len(participants) :
            i < j =>
                \/ participants[i].amount < participants[j].amount
                \/ /\ participants[i].amount = participants[j].amount
                   /\ participants[i].id < participants[j].id
    /\ HasReturned =>
        \A f \in Orderings(NumParticipants(input)) :
            minPaymentsAlgorithm(Reordered(input, f)).matrix = result.matrix

\* The consequence alone, for inputs without zero amounts: reordering the
\* participants never changes the matrix.
C8_OrderIndependentMatrix ==
    (HasReturned /\ \A i \in 1..NumParticipants(input) : InputAmount(input, i) # 0) =>
        \A f \in Orderings(NumParticipants(input)) :
            minPaymentsAlgorithm(Reordered(input, f)).matrix = result.matrix

FormatReturned == Len(formatLog) > 0 /\ Last(formatLog).status = "returned"

\* C10: after a successful call of format the template object is what it was
\* before the call (GrpHdr, the prototype entries' Ustrd and PmtInf alike).
C10_TemplateNotMutated == FormatReturned => template = templateAtCall

\* ------------------------------------------------- the payment file emitter

\* Two successive calls of format on one template object with one directory
\* and window id, the first of which returned a document.
CalledTwice == Len(formatLog) = 2 /\ formatLog[1].status = "returned"

\* C11: when format is called twice in succession with the same matrix,
\* directory, window id and template object, the second call returns too and,
\* the random source and the clock giving the same values, returns the same
\* document.
C11_IdempotentFormat ==
    CalledTwice =>
        /\ formatLog[2].status = "returned"
        /\ (/\ formatLog[2].msgId = formatLog[1].msgId
            /\ formatLog[2].e2e = formatLog[1].e2e
            /\ formatLog[2].now = formatLog[1].now
            /\ formatLog[2].windowId = formatLog[1].windowId)
                => formatLog[2].doc = formatLog[1].doc

\* The ids occurring in the matrix as payer or payee of a cell, and those of
\* them without a directory entry.
CellIds(m) == {c[1] : c \in Cells(m)} \cup {c[2] : c \in Cells(m)}
MissingIds(m, conf) == CellIds(m) \ DOMAIN conf

\* What the directory rule asks of a call of format.
DirectoryRule(call) ==
    IF MissingIds(result.matrix, dfspConf) # {}
    THEN /\ call.status = "thrown"
         /\ call.error = "UnknownParticipant"
         /\ call.missing \in MissingIds(result.matrix, dfspConf)
         /\ call.doc = NoTemplate
    ELSE call.error # "UnknownParticipant"

\* C12 as claimed: every call of format obeys the directory rule.
C12_DirectoryCoverageAnyTemplate ==
    Len(formatLog) > 0 => DirectoryRule(Last(formatLog))

\* C12 amended: every call of format whose template passes the namespace check
\* (lines 149-151) obeys the directory rule: a payer or payee without a
\* directory entry makes it fail naming such an id, with no document, and
\* with a complete directory that error is never raised.
C12_DirectoryCoverage ==
    (Len(formatLog) > 0 /\ templateAtCall.xmlns = Pain001) => DirectoryRule(Last(formatLog))

\* A call that failed on a payee whose payer is in the directory.
C12_Witness ==
    /\ Len(formatLog) > 0
    /\ templateAtCall.xmlns = Pain001
    /\ Last(formatLog).error = "UnknownParticipant"
    /\ Last(formatLog).missing \in Payees(result.matrix)
    /\ DOMAIN result.matrix \subseteq DOMAIN dfspConf

\* The group of the returned document that belongs to a payer.
GroupsOf(doc, payer) ==
    {k \in 1..Len(doc.PmtInf.groups) : doc.PmtInf.groups[k].Dbtr.Nm = dfspConf[payer].name}

\* C13: in a returned document the header's NbOfTxs and CtrlSum are the number
\* and the sum of the matrix cells, there is exactly one PmtInf group per
\* payer, carrying the number and the sum of that payer's cells, and the
\* group values add up to the header values.
C13_ControlTotals ==
    FormatReturned =>
        LET doc == Last(formatLog).doc
            m == result.matrix
            groups == doc.PmtInf.groups
        IN /\ doc.GrpHdr.NbOfTxs = Cardinality(Cells(m))
           /\ doc.GrpHdr.CtrlSum = SumSeq([k \in 1..Len(SortedKeys(DOMAIN m)) |->
                                            RowSum(m, SortedKeys(DOMAIN m)[k])])
           /\ Len(groups) = Cardinality(DOMAIN m)
           /\ \A payer \in DOMAIN m :
                /\ Cardinality(GroupsOf(doc, payer)) = 1
                /\ \A k \in GroupsOf(doc, payer) :
                    /\ groups[k].NbOfTxs = Cardinality(DOMAIN m[payer])
                    /\ groups[k].CtrlSum = RowSum(m, payer)
                    /\ Len(groups[k].CdtTrfTxInf) = groups[k].NbOfTxs
           /\ SumSeq([k \in 1..Len(groups) |-> groups[k].NbOfTxs]) = doc.GrpHdr.NbOfTxs
           /\ SumSeq([k \in 1..Len(groups) |-> groups[k].CtrlSum]) = doc.GrpHdr.CtrlSum

\* A returned document for a matrix in which one payer pays two payees.
C13_Witness ==
    /\ FormatReturned
    /\ \E payer \in DOMAIN result.matrix : Cardinality(DOMAIN result.matrix[payer]) = 2
    /\ Last(formatLog).doc.GrpHdr.CtrlSum > 0

\* A returned document with a group per payer for two payers.
C13_WitnessTwoGroups ==
    /\ FormatReturned
    /\ Len(Last(formatLog).doc.PmtInf.groups) = 2

\* C14: no EndToEndId of a returned document is the all-zero value, whatever
\* the random source gives.
C14_EndToEndIdNonZero ==
    FormatReturned =>
        LET groups == Last(formatLog).doc.PmtInf.groups IN
        \A k \in 1..Len(groups) : \A j \in 1..Len(groups[k].CdtTrfTxInf) :
            groups[k].CdtTrfTxInf[j].PmtId.EndToEndId # "0000000000"

\* --------------------------------------------------------- the decimal rate

Digits == {"0", "1", "2", "3", "4", "5", "6", "7", "8", "9"}
IsDigitString(v) ==
    TypeOf(v) = "string" /\ \A i \in 1..Len(v.chars) : v.chars[i] \in Digits
IsNaturalNumber(v) == TypeOf(v) = "number" /\ v.halves >= 0 /\ v.halves % 2 = 0
RateCalled == decimalRate.status # "pending"

\* C15: for a digit string s of length L and an integer d >= 0,
\* buildDecimalRate(s, d) returns s when d = 0, the first L - d characters of
\* s, a point and the last d characters when 0 < d < L, and "0." followed by
\* all of s when d >= L.
C15_DecimalPointPlacement ==
    (RateCalled /\ IsDigitString(rate) /\ IsNaturalNumber(decimalPlaces)) =>
        LET s == rate.chars
            L == Len(s)
            d == decimalPlaces.halves \div 2
        IN /\ decimalRate.status = "returned"
           /\ decimalRate.value =
                IF d = 0 THEN s
                ELSE IF d < L THEN SubSeq(s, 1, L - d) \o <<".">> \o SubSeq(s, L - d + 1, L)
                ELSE <<"0", ".">> \o s

\* A call that put the point inside the string.
C15_Witness ==
    /\ RateCalled
    /\ IsDigitString(rate) /\ IsNaturalNumber(decimalPlaces)
    /\ 0 < decimalPlaces.halves \div 2
    /\ decimalPlaces.halves \div 2 < Len(rate.chars)
    /\ Len(decimalRate.value) = Len(rate.chars) + 1

\* A call with at least as many decimal places as the string has digits.
C15_WitnessLeadingZero ==
    /\ RateCalled
    /\ IsDigitString(rate) /\ IsNaturalNumber(decimalPlaces)
    /\ Len(rate.chars) > 0
    /\ decimalPlaces.halves \div 2 >= Len(rate.chars)
    /\ Head(decimalRate.value) = "0"

\* The integer a digit string denotes.
DigitValue(c) == CHOOSE n \in 0..9 : <<"0", "1", "2", "3", "4", "5", "6", "7", "8", "9">>[n + 1] = c
RECURSIVE IntegerOf(_)
IntegerOf(chars) ==
    IF Len(chars) = 0 THEN 0 ELSE 10 * IntegerOf(Front(chars)) + DigitValue(Last(chars))

\* Where the decimal point of a numeral is; 0 when it has none.
PointIndex(chars) ==
    IF \E i \in 1..Len(chars) : chars[i] = "."
    THEN CHOOSE i \in 1..Len(chars) : chars[i] = "."
    ELSE 0

\* The number a numeral denotes, times 10^d, for d no less than the number of
\* its fractional digits.
TimesPow10(chars, d) ==
    IF PointIndex(chars) = 0 THEN IntegerOf(chars) * Pow10(d)
    ELSE LET int == SubSeq(chars, 1, PointIndex(chars) - 1)
             frac == SubSeq(chars, PointIndex(chars) + 1, Len(chars))
         IN IntegerOf(int) * Pow10(d) + IntegerOf(frac) * Pow10(d - Len(frac))

\* C16: for a non-empty digit string s and an integer d >= 0, also d greater
\* than the length of s, the number buildDecimalRate(s, d) denotes, times
\* 10^d, is the integer s denotes.
C16_RoundTrip ==
    (/\ RateCalled
     /\ IsDigitString(rate) /\ Len(rate.chars) > 0
     /\ IsNaturalNumber(decimalPlaces)) =>
        /\ decimalRate.status = "returned"
        /\ TimesPow10(decimalRate.value, decimalPlaces.halves \div 2) = IntegerOf(rate.chars)

\* What the input constraints exclude.
InvalidRateInput(r, places) ==
    \/ TypeOf(r) # "string"
    \/ r.chars = <<>>
    \/ ~IsDigitString(r)
    \/ TypeOf(places) # "number"
    \/ places.halves < 0
    \/ places.halves % 2 # 0

\* C17: buildDecimalRate fails, and returns no string, when rate is not a
\* string, is empty or holds a non-digit, or when decimalPlaces is not a
\* number, is negative or is not an integer.
C17_RejectsInvalidInput ==
    (RateCalled /\ InvalidRateInput(rate, decimalPlaces)) => decimalRate.status = "thrown"

\* ------------------------------------------------------ the currency channels

\* The requests of a method the call in progress has issued.
Issued(method) == {i \in 1..Len(httpLog) : httpLog[i].method = method}

\* The channels of a list that are of a currency pair, whatever the case of
\* the letters.
Matching(list, currencyPair) ==
    {i \in 1..Len(list) :
        /\ toUpperCase(list[i].sourceCurrency) = toUpperCase(SubSeq(currencyPair, 1, 3))
        /\ toUpperCase(list[i].destinationCurrency) = toUpperCase(SubSeq(currencyPair, 4, 6))}

\* C18: the Citi block built for a rate record without forexProviderInfo takes
\* rateSetId from the record when it has one, else from the static table
\* (EURMAD -> 43); when neither gives a value the call fails and posts
\* nothing.
C18_RateSetIdFallback ==
    (/\ fxpCall.op = "createFxpRateForCurrencyChannel"
     /\ fxpCall.details.forexProviderInfo = Undefined) =>
        LET fromTable == IF toUpperCase(fxpCall.currencyPair) = <<"E", "U", "R", "M", "A", "D">>
                         THEN StringValue(<<"4", "3">>) ELSE Undefined
            expected == IF fxpCall.details.rateSetId # Undefined
                        THEN fxpCall.details.rateSetId ELSE fromTable
        IN IF expected = Undefined
           THEN /\ Issued("POST") = {}
                /\ fxpPc = "idle" => fxpResult.status = "rejected"
           ELSE fxpFrame.body.forexProviderInfo.citi.rateSetId = expected

\* C19: createFxpCurrencyChannel posts nothing before the list is fetched; if
\* the fetched list holds a channel of the requested pair, compared without
\* regard to case, the call rejects with 'FXP API error - Currency channel
\* already exists.' and posts nothing; otherwise it issues exactly one POST to
\* 'exchange-rates/channels', after the GET, and ends as that POST ends.
C19_CreateChannelOnlyIfAbsent ==
    fxpCall.op = "createFxpCurrencyChannel" =>
        /\ fxpFrame.fetched # "list" => Issued("POST") = {}
        /\ fxpFrame.fetched = "list" =>
            IF Matching(fxpFrame.currencyChannels, fxpCall.currencyPair) # {}
            THEN /\ fxpResult = Rejected("FXP API error - Currency channel already exists.")
                 /\ Issued("POST") = {}
            ELSE /\ Len(httpLog) = 2
                 /\ httpLog[1].method = "GET"
                 /\ httpLog[2].method = "POST" /\ httpLog[2].url = ChannelsUrl
                 /\ fxpResult = httpLog[2].outcome

\* A call rejected because of a channel written in another case than the
\* requested pair.
C19_Witness ==
    /\ fxpCall.op = "createFxpCurrencyChannel"
    /\ fxpResult = Rejected("FXP API error - Currency channel already exists.")
    /\ \A i \in 1..Len(fxpFrame.currencyChannels) :
        fxpFrame.currencyChannels[i].sourceCurrency # SubSeq(fxpCall.currencyPair, 1, 3)

\* A call that posted the new channel and resolved with the POST's result.
C19_WitnessPosted ==
    /\ fxpCall.op = "createFxpCurrencyChannel"
    /\ fxpPc = "idle"
    /\ Len(httpLog) = 2
    /\ fxpResult = Resolved(ResponseBody(httpLog[2]))
    /\ Len(fxpFrame.currencyChannels) > 0

\* C20: deleteFxpCurrencyChannel resolves with { ok: true } and issues no
\* DELETE when no channel of the fetched list is of the requested pair; when
\* one is, it issues exactly one DELETE, for the id of such a channel, and
\* ends as that DELETE ends.
C20_DeleteSafeToRepeat ==
    fxpCall.op = "deleteFxpCurrencyChannel" =>
        /\ fxpFrame.fetched # "list" => Issued("DELETE") = {}
        /\ fxpFrame.fetched = "list" =>
            IF Matching(fxpFrame.currencyChannels, fxpCall.currencyPair) = {}
            THEN /\ fxpResult = Resolved(OkTrue)
                 /\ Issued("DELETE") = {}
            ELSE /\ Len(httpLog) = 2
                 /\ Issued("DELETE") = {2}
                 /\ \E i \in Matching(fxpFrame.currencyChannels, fxpCall.currencyPair) :
                        httpLog[2].url = ChannelUrl(fxpFrame.currencyChannels[i].id)
                 /\ fxpResult = httpLog[2].outcome

\* The repeated call: channel 0 is gone from the API's list, the call found
\* no channel of the pair and resolved with { ok: true } without a DELETE.
C20_Witness ==
    /\ fxpCall.op = "deleteFxpCurrencyChannel"
    /\ fxpCalls = 2
    /\ fxpResult = Resolved(OkTrue)
    /\ Issued("DELETE") = {}
    /\ Len(channels) > 0
    /\ \A i \in 1..Len(channels) : channels[i].id # 0

\* A call that deleted the channel of the pair.
C20_WitnessDeleted ==
    /\ fxpCall.op = "deleteFxpCurrencyChannel"
    /\ fxpPc = "idle"
    /\ Issued("DELETE") = {2}
    /\ fxpResult.status = "resolved"
    /\ Matching(channels, fxpCall.currencyPair) = {}

\* ----------------------------------------------------------- the netting loop

\* The outer loop has just taken a creditor (lines 113-114).
TakesCreditor == pc = "outer" /\ pc' = "inner"

\* C21 as claimed: the creditor taken by the outer loop has the most-negative
\* amount of the creditors not yet settled.
C21_TakesMostNegative ==
    [][TakesCreditor =>
        \A i \in 1..Len(creditors') : creditor'[1].amount <= creditors'[i].amount]_vars

\* C21 amended: the creditor taken by the outer loop is the last of the sorted
\* creditors, the one with the least-negative amount of those not yet settled
\* (pop() takes from the tail), so creditors are settled in order of
\* increasing owed amount.
C21_TakesLeastNegative ==
    [][TakesCreditor =>
        /\ \A i \in 1..Len(creditors') : creditors'[i].amount <= creditor'[1].amount
        /\ creditor'[1] = Last(creditors)
        /\ creditors' = Front(creditors)]_vars

\* A creditor has been taken while one owed strictly more is still waiting.
C21_Witness ==
    /\ pc = "inner"
    /\ Len(creditors) > 0
    /\ Cells(matrix) = {}
    /\ \E i \in 1..Len(creditors) : creditors[i].amount < creditor[1].amount
    /\ creditor[1].amount < 0

\* The loop is about to test the tail debtor (line 117) or to draw from it
\* (lines 123-127).
UsesTailDebtor ==
    \/ pc = "inner" /\ Len(debtors) > 0
    \/ pc = "partial" /\ creditor[1].amount < 0 /\ Len(debtors) > 0

TailIsLargest == \A i \in 1..Len(debtors) : debtors[i].amount <= Last(debtors).amount

\* No partial draw has taken anything from the tail debtor yet.
TailUndrawn == matrix[Last(debtors).id] = <<>>

\* C22 as claimed: whenever the loop tests or draws from the tail debtor, it
\* has the largest remaining amount on the stack.
C22_TailAlwaysLargest == UsesTailDebtor => TailIsLargest

\* C22 amended: whenever the loop tests or draws from the tail debtor and no
\* partial draw has reduced that debtor, it has the largest remaining amount
\* on the stack; a debtor reduced by a partial draw stays at the tail and is
\* used next whatever the others hold, and the debtors below the tail are in
\* ascending order.
C22_TailLargestUntilDrawn ==
    UsesTailDebtor =>
        /\ TailUndrawn => TailIsLargest
        /\ \A i, j \in 1..(Len(debtors) - 1) : i < j => debtors[i].amount <= debtors[j].amount

\* The loop tests an undrawn tail debtor that holds strictly more than another.
C22_Witness ==
    /\ pc = "inner"
    /\ Len(debtors) >= 2
    /\ TailUndrawn
    /\ debtors[1].amount < Last(debtors).amount
    /\ creditor[1].amount < 0

\* The creditors and debtors the loop still has to deal with.
Waiting == Len(creditors) + Len(debtors)

\* C23: every call of minPaymentsAlgorithm ends, returning or throwing; each
\* pass of the outer loop removes one creditor and each pass of the inner loop
\* removes one debtor, nothing is ever added, and there are never more
\* creditors and debtors waiting than the input has participants, so the
\* number of loop steps is bounded by the number of participants.
C23_Termination ==
    /\ (pc = "project") ~> (pc = "done" /\ result.status \in {"returned", "thrown"})
    /\ [](Waiting <= NumParticipants(input))
    /\ [][/\ TakesCreditor => Len(creditors') = Len(creditors) - 1
          /\ (pc = "inner" /\ pc' = "inner") => Len(debtors') = Len(debtors) - 1
          /\ pc \in {"outer", "inner", "partial", "final"} =>
                /\ Len(creditors') <= Len(creditors)
                /\ Len(debtors') <= Len(debtors)]_vars

\* A call that returned after the outer loop ran twice and the inner loop
\* popped two debtors.
C23_Witness ==
    /\ pc = "done"
    /\ result.status = "returned"
    /\ Cardinality(Payees(result.matrix)) >= 2
    /\ Cardinality(DOMAIN result.matrix) >= 2


\* ---------------------------------------------------------------------------
\* The balance still to be settled: the creditors not yet taken, the creditor
\* in hand while its debtors are being drawn, and the debtors on the stack.
InLoop == pc \in {"outer", "inner", "partial", "final"}

Outstanding ==
    SumAmounts(creditors) + SumAmounts(debtors)
        + (IF pc \in {"inner", "partial"} THEN creditor[1].amount ELSE 0)

ExhaustsDebtor == pc = "inner" /\ pc' = "inner"
DrawsPartially == pc = "partial" /\ creditor[1].amount < 0 /\ pc' = "outer"

\* The amount a step writes is what the payer owes less and the payee is owed less.
WritesTheDecrease ==
    /\ ExhaustsDebtor =>
           /\ matrix'[Last(debtors).id][creditor[1].id] = Last(debtors).amount
           /\ SumAmounts(debtors) - SumAmounts(debtors') = Last(debtors).amount
           /\ creditor'[1].amount - creditor[1].amount = Last(debtors).amount
    /\ DrawsPartially =>
           /\ matrix'[Last(debtors).id][creditor[1].id] = -creditor[1].amount
           /\ Last(debtors).amount - Last(debtors').amount = -creditor[1].amount
           /\ SumAmounts(debtors) - SumAmounts(debtors') = -creditor[1].amount
           /\ SumAmounts(creditors') = SumAmounts(creditors)

\* C24: at the start of the netting loop and after every step of it the
\* amounts of the creditors not yet settled (the one in hand included) and of
\* the debtors on the stack sum to zero, and every amount written to the
\* matrix is the amount by which the step reduces what the payer still owes
\* and what the payee is still owed.
C24_OutstandingBalance ==
    /\ [](InLoop => Outstanding = 0)
    /\ [][WritesTheDecrease]_vars

\* A partial draw has been made and creditors are still waiting.
C24_Witness ==
    /\ pc = "outer"
    /\ Len(creditors) > 0
    /\ Len(debtors) > 0
    /\ matrix[Last(debtors).id] # <<>>
    /\ Cardinality(Cells(matrix)) >= 2

\* C25: for a validated input, whenever the creditor in hand is still owed
\* money after the inner loop, a debtor is on the stack (none is read that is
\* not there) and it owes more than the creditor is owed, so after the draw
\* it stays on the stack with an amount above zero.
C25_PartialDrawWellDefined ==
    /\ []((pc = "partial" /\ creditor[1].amount < 0) =>
              /\ Len(debtors) > 0
              /\ creditor[1].amount + Last(debtors).amount > 0)
    /\ [](result.error # "TypeError")
    /\ [][DrawsPartially =>
              /\ Len(debtors') = Len(debtors)
              /\ Last(debtors').id = Last(debtors).id
              /\ Last(debtors').amount > 0]_vars

\* The creditor in hand took all of one debtor and draws the rest from the next.
C25_Witness ==
    /\ pc = "partial"
    /\ creditor[1].amount < 0
    /\ Cells(matrix) # {}
    /\ Len(debtors) > 0

\* The debtors of the input: the participants with an amount above zero.
InputDebtors(inp) ==
    {inp.participants[i].id :
        i \in {j \in 1..NumParticipants(inp) : InputAmount(inp, j) > 0}}

WritesNewCell ==
    /\ ExhaustsDebtor =>
           <<Last(debtors).id, creditor[1].id>> \notin Cells(matrix)
    /\ DrawsPartially =>
           <<Last(debtors).id, creditor[1].id>> \notin Cells(matrix)

\* C26: in one run on a validated input every write to the matrix goes to a
\* (payer, payee) pair not written before, and the keys of the returned
\* matrix are exactly the debtors of the input.
C26_NoCellWrittenTwice ==
    /\ [][WritesNewCell]_vars
    /\ [](HasReturned => DOMAIN result.matrix = InputDebtors(inputAtCall))


\* ---------------------------------------------------------------------------
\* C28: get, put, post and del resolve only for an ok response: whenever
\* res.ok is false the call rejects with an HTTPResponseError that carries the
\* response, whatever the status and the content-length, an error response
\* with an empty body included.
C28_RejectsEveryErrorResponse ==
    (reqPc = "done" /\ ~response.ok) =>
        /\ requestResult.status = "rejected"
        /\ requestResult.error = "HTTPResponseError"
        /\ requestResult.value.res = response


\* ---------------------------------------------------------------------------
\* A funds call has ended after the list of participants arrived.
ListArrived == fundsPc \in {"posting", "done"} /\ fundsLog[1].reply = "json"
Posts == {i \in 1..Len(fundsLog) : fundsLog[i].method = "POST"}

\* C29: when no participant of the list owns an account with the given id the
\* call rejects with Error("Couldn't find fsp with account ID <id>") and no
\* POST is issued; when one does, getParticipantByAccountId returns it.
C29_UnknownAccountIsReported ==
    ListArrived =>
        /\ findFsp(fsps, fundsCall.accountId) = 0 =>
               /\ fundsResult.status = "rejected"
               /\ fundsResult.error =
                      ErrorOf("Error", "Couldn't find fsp with account ID ",
                              fundsCall.accountId)
               /\ Posts = {}
        /\ (findFsp(fsps, fundsCall.accountId) # 0
                /\ fundsCall.op = "getParticipantByAccountId") =>
               fundsResult = Settled("resolved",
                                     fsps[findFsp(fsps, fundsCall.accountId)], NoError_)


\* ---------------------------------------------------------------------------
\* The requests for the rates of the channels, and those answered with rates.
RatesRequests == 2..Len(httpLog)
NonNull ==
    {i \in RatesRequests :
        httpLog[i].outcome.status = "resolved" /\ httpLog[i].outcome.value.type = "array"}

\* Every channel of the list was asked for its rates and none of the requests failed.
AllRatesAnswered ==
    /\ fxpCall.op = "getFxpRatesPerCurrencyChannel"
    /\ fxpFrame.fetched = "list"
    /\ \A i \in RatesRequests : httpLog[i].outcome.status = "resolved"

\* C30: getFxpRatesPerCurrencyChannel resolves with an object that has exactly
\* one key per channel whose rates response is not null, the key being the
\* lower-cased source currency followed by the lower-cased destination
\* currency; a channel whose rates response is null is left out and does not
\* make the call fail.
C30_OneKeyPerChannelWithRates ==
    AllRatesAnswered =>
        /\ fxpResult.status = "resolved"
        /\ DOMAIN fxpResult.value =
               {buildCustomFxpChannelIdentifier(fxpFrame.currencyChannels[i - 1]) :
                    i \in NonNull}
        /\ Cardinality(DOMAIN fxpResult.value) = Cardinality(NonNull)


\* ---------------------------------------------------------------------------
\* sendRequest has settled; the timer fired before it did.
SendSettled == sendPc = "done"
TimedOut == timer = "fired"

\* The three parts of the claim: a timer that fires first makes the call
\* reject with Error('Request timed out.'); otherwise the call settles as the
\* promise of fetchFunc did; and the timer is no longer armed once the call
\* has settled, so that no abort follows.
RejectsOnTimeout ==
    (SendSettled /\ TimedOut) => sendResult = Rejected("Request timed out.")
SettlesAsFetchDid == (SendSettled /\ ~TimedOut) => sendResult = fetchPromise
NoAbortAfterSettled ==
    /\ [](SendSettled => timer \in {"fired", "cleared"})
    /\ [][SendSettled => aborted' = aborted]_vars

\* C27 as claimed, for every fetchFunc: if the timer fires before the fetch
\* has settled the request is aborted and sendRequest rejects with
\* Error('Request timed out.'); if the fetch settles first sendRequest
\* settles with its result or its error unchanged; and in both cases no abort
\* fires after sendRequest has settled.
C27_TimeoutRaceAnyFetchFunc ==
    /\ [](RejectsOnTimeout /\ SettlesAsFetchDid)
    /\ [](TimedOut => aborted)
    /\ NoAbortAfterSettled

\* C27 as it holds: the same, for a fetchFunc that rejects with an AbortError
\* when its signal is aborted while the request is pending and with no
\* AbortError otherwise (node-fetch, the default).
C27_TimeoutRace ==
    /\ [](fetchFunc = "fetch" => RejectsOnTimeout /\ SettlesAsFetchDid)
    /\ [](TimedOut => aborted)
    /\ NoAbortAfterSettled

\* The timer fired first and the call has rejected.
C27_Witness ==
    /\ SendSettled
    /\ TimedOut
    /\ fetchFunc = "fetch"
    /\ sendResult.status = "rejected"

\* The fetch settled first, the timer was cleared and time went on past the timeout.
C27_WitnessCleared ==
    /\ SendSettled
    /\ timer = "cleared"
    /\ elapsed > timeout
    /\ fetchFunc = "fetch"
    /\ sendResult.status = "resolved"

=============================================================================
